---- MODULE Spec2Model ----
(***************************************************************************)
(* analyse_classes.py: reconciliation of per-source land-cover / crop      *)
(* class tables onto one canonical hierarchy.                              *)
(*                                                                         *)
(* Python values are modelled as follows.                                  *)
(*   - a dict whose key order is never observed by the logic (a class      *)
(*     entry, a hierarchy level, a hierarchy node) is a function whose     *)
(*     DOMAIN is the set of keys it holds: "k in d" is k \in DOMAIN d;     *)
(*   - a dict that is iterated (DATASETS, a source's "classes",            *)
(*     l2_cross_ref, its per-source maps, summary, the tallies) is an      *)
(*     association list <<key, value>> in insertion order;                 *)
(*   - None is the value None, and truthiness follows Python: None and     *)
(*     the empty string are false.                                         *)
(***************************************************************************)
EXTENDS Integers, Sequences, FiniteSets, TLC

\* ---------------------------------------------------------------------
\* Python values
\* ---------------------------------------------------------------------
None == "<None>"

Truthy(v) == v # None /\ v # ""

EmptyDict == <<>>

\* an unbound name, a file that does not exist
NoDocument == <<>>

\* d.get(k, default) and d.get(k)
DictGet(d, k, default) == IF k \in DOMAIN d THEN d[k] ELSE default

\* d[k] = v
DictSet(d, k, v) == [x \in (DOMAIN d) \cup {k} |-> IF x = k THEN v ELSE d[x]]

\* insertion-ordered dicts
Keys(od) == [i \in 1..Len(od) |-> od[i][1]]

KeySet(od) == {od[i][1] : i \in 1..Len(od)}

Has(od, k) == \E i \in 1..Len(od) : od[i][1] = k

Lookup(od, k) == od[CHOOSE i \in 1..Len(od) : od[i][1] = k][2]

OdGet(od, k, default) == IF Has(od, k) THEN Lookup(od, k) ELSE default

\* od[k] = v: an existing key keeps its position, a new key goes last
Put(od, k, v) ==
  IF Has(od, k)
    THEN [i \in 1..Len(od) |-> IF od[i][1] = k THEN <<k, v>> ELSE od[i]]
    ELSE Append(od, <<k, v>>)

\* ---------------------------------------------------------------------
\* HIERARCHY (the literal of the module; display attributes other than
\* color are left out, nothing reads them)
\* ---------------------------------------------------------------------
ShippedL0 ==
  ("Cropland" :> [color |-> "#f5c71a"]) @@
  ("Grassland" :> [color |-> "#7cfc00"]) @@
  ("Forest" :> [color |-> "#006400"]) @@
  ("Shrubland" :> [color |-> "#9acd32"]) @@
  ("Water" :> [color |-> "#4682b4"]) @@
  ("Urban" :> [color |-> "#fa0000"]) @@
  ("Bare" :> [color |-> "#b4b4b4"]) @@
  ("Wetland" :> [color |-> "#0096a0"]) @@
  ("Snow/Ice" :> [color |-> "#f0f0f0"]) @@
  ("Fallow" :> [color |-> "#d2b48c"]) @@
  ("Unknown" :> [color |-> "#808080"])

ShippedL1 ==
  ("Cereals" :> [color |-> "#d4a017", parent |-> "Cropland", duration |-> "annual"]) @@
  ("Oilseeds" :> [color |-> "#ffa500", parent |-> "Cropland", duration |-> "annual"]) @@
  ("Legumes" :> [color |-> "#228b22", parent |-> "Cropland", duration |-> "annual"]) @@
  ("Root Crops" :> [color |-> "#cd853f", parent |-> "Cropland", duration |-> "annual"]) @@
  ("Vegetables" :> [color |-> "#ff6347", parent |-> "Cropland", duration |-> "annual"]) @@
  ("Fruits/Orchards" :> [color |-> "#9370db", parent |-> "Cropland", duration |-> "perennial"]) @@
  ("Vineyards" :> [color |-> "#722f72", parent |-> "Cropland", duration |-> "perennial"]) @@
  ("Industrial Crops" :> [color |-> "#9acd32", parent |-> "Cropland", duration |-> "annual"]) @@
  ("Fodder Crops" :> [color |-> "#90ee90", parent |-> "Cropland", duration |-> "mixed"]) @@
  ("Flowers" :> [color |-> "#ff69b4", parent |-> "Cropland", duration |-> "annual"]) @@
  ("Mixed/Other Crops" :> [color |-> "#a9a9a9", parent |-> "Cropland", duration |-> "mixed"]) @@
  ("Nursery" :> [color |-> "#228b22", parent |-> "Cropland", duration |-> "perennial"])

ShippedL2 ==
  ("Wheat" :> [color |-> "#d4a017", parent |-> "Cereals", duration |-> "annual"]) @@
  ("Barley" :> [color |-> "#ccaa00", parent |-> "Cereals", duration |-> "annual"]) @@
  ("Maize" :> [color |-> "#f5c71a", parent |-> "Cereals", duration |-> "annual"]) @@
  ("Rye" :> [color |-> "#b89830", parent |-> "Cereals", duration |-> "annual"]) @@
  ("Oats" :> [color |-> "#c8a848", parent |-> "Cereals", duration |-> "annual"]) @@
  ("Triticale" :> [color |-> "#a89030", parent |-> "Cereals", duration |-> "annual"]) @@
  ("Rice" :> [color |-> "#00bfff", parent |-> "Cereals", duration |-> "annual"]) @@
  ("Sorghum" :> [color |-> "#b8860b", parent |-> "Cereals", duration |-> "annual"]) @@
  ("Millet" :> [color |-> "#f4a460", parent |-> "Cereals", duration |-> "annual"]) @@
  ("Spelt" :> [color |-> "#c0a030", parent |-> "Cereals", duration |-> "annual"]) @@
  ("Rapeseed" :> [color |-> "#ffa500", parent |-> "Oilseeds", duration |-> "annual"]) @@
  ("Sunflower" :> [color |-> "#ffc107", parent |-> "Oilseeds", duration |-> "annual"]) @@
  ("Soy" :> [color |-> "#cdaa20", parent |-> "Oilseeds", duration |-> "annual"]) @@
  ("Flax/Linseed" :> [color |-> "#e8d44d", parent |-> "Oilseeds", duration |-> "annual"]) @@
  ("Mustard" :> [color |-> "#eee8aa", parent |-> "Oilseeds", duration |-> "annual"]) @@
  ("Hemp" :> [color |-> "#9acd32", parent |-> "Industrial Crops", duration |-> "annual"]) @@
  ("Beans" :> [color |-> "#228b22", parent |-> "Legumes", duration |-> "annual"]) @@
  ("Peas" :> [color |-> "#00ff7f", parent |-> "Legumes", duration |-> "annual"]) @@
  ("Lentils" :> [color |-> "#3cb371", parent |-> "Legumes", duration |-> "annual"]) @@
  ("Chickpea" :> [color |-> "#556b2f", parent |-> "Legumes", duration |-> "annual"]) @@
  ("Lupin" :> [color |-> "#00fa9a", parent |-> "Legumes", duration |-> "annual"]) @@
  ("Clover" :> [color |-> "#00cd66", parent |-> "Legumes", duration |-> "perennial"]) @@
  ("Lucerne" :> [color |-> "#2e8b57", parent |-> "Legumes", duration |-> "perennial"]) @@
  ("Potato" :> [color |-> "#cd853f", parent |-> "Root Crops", duration |-> "annual"]) @@
  ("Sugar Beet" :> [color |-> "#deb887", parent |-> "Root Crops", duration |-> "annual"]) @@
  ("Carrot" :> [color |-> "#ff8c00", parent |-> "Root Crops", duration |-> "annual"]) @@
  ("Turnip" :> [color |-> "#dda0dd", parent |-> "Root Crops", duration |-> "annual"]) @@
  ("Onion" :> [color |-> "#daa520", parent |-> "Vegetables", duration |-> "annual"]) @@
  ("Tomato" :> [color |-> "#ff4500", parent |-> "Vegetables", duration |-> "annual"]) @@
  ("Lettuce" :> [color |-> "#90ee90", parent |-> "Vegetables", duration |-> "annual"]) @@
  ("Cabbage" :> [color |-> "#66cdaa", parent |-> "Vegetables", duration |-> "annual"]) @@
  ("Spinach" :> [color |-> "#2e8b57", parent |-> "Vegetables", duration |-> "annual"]) @@
  ("Apple" :> [color |-> "#ff6b6b", parent |-> "Fruits/Orchards", duration |-> "perennial"]) @@
  ("Pear" :> [color |-> "#c5e17a", parent |-> "Fruits/Orchards", duration |-> "perennial"]) @@
  ("Cherry" :> [color |-> "#dc143c", parent |-> "Fruits/Orchards", duration |-> "perennial"]) @@
  ("Berry" :> [color |-> "#9400d3", parent |-> "Fruits/Orchards", duration |-> "perennial"]) @@
  ("Strawberry" :> [color |-> "#ff4040", parent |-> "Fruits/Orchards", duration |-> "perennial"])

\* Faulty variant: the L2 level lacks the node "Maize".
ShippedHierarchy_NoMaize ==
  ("L0" :> ShippedL0) @@ ("L1" :> ShippedL1) @@
  ("L2" :> [n \in (DOMAIN ShippedL2) \ {"Maize"} |-> ShippedL2[n]])

\* Faulty variant: the parent of the L2 node "Clover" is no L1 node.
ShippedHierarchy_Dangling ==
  ("L0" :> ShippedL0) @@ ("L1" :> ShippedL1) @@
  ("L2" :> [ShippedL2 EXCEPT !["Clover"] =
              [color |-> "#00cd66", parent |-> "Pulses", duration |-> "perennial"]])

ShippedHierarchy ==
  ("L0" :> ShippedL0) @@ ("L1" :> ShippedL1) @@ ("L2" :> ShippedL2)

\* Hierarchies a fixture installs in place of the literal: nodes without a
\* "duration" key, a node whose parent is absent from the level above, and
\* a hierarchy that has no L1 and no L2 level.
NoDurationHierarchy ==
  ("L0" :> ShippedL0) @@
  ("L1" :> [ShippedL1 EXCEPT !["Legumes"] = [color |-> "#228b22", parent |-> "Cropland"]]) @@
  ("L2" :> [ShippedL2 EXCEPT !["Wheat"] = [color |-> "#d4a017", parent |-> "Cereals"]])

DanglingHierarchy ==
  ("L0" :> ShippedL0) @@
  ("L1" :> ShippedL1) @@
  ("L2" :> [ShippedL2 EXCEPT !["Clover"] =
              [color |-> "#00cd66", parent |-> "Pulses", duration |-> "perennial"]])

L0OnlyHierarchy == ("L0" :> ShippedL0)

HierarchyFixtures ==
  {ShippedHierarchy, NoDurationHierarchy, DanglingHierarchy, L0OnlyHierarchy}

\* ---------------------------------------------------------------------
\* DATASETS
\* ---------------------------------------------------------------------
\* Ids of the registered sources, in registration order.  "meta" is the id
\* the cross-reference loop tests for.
SourceIds == <<"crome", "germany", "meta">>

SourceMeta ==
  ("crome" :> [label |-> "England CROME", country |-> "England",
               resolution |-> "~5m (vector parcels)", type |-> "vector"]) @@
  ("germany" :> [label |-> "Germany DLR CropTypes", country |-> "Germany",
                 resolution |-> "10m (Sentinel-1)", type |-> "raster"]) @@
  ("meta" :> [country |-> "Nowhere"]) @@
  ("usda-cdl" :> [label |-> "USDA Cropland Data Layer", country |-> "USA",
                  resolution |-> "30m (Landsat + Sentinel)", type |-> "raster"])

\* Class entries the registries of Spec are built from.
Templates == <<
  [name |-> "Winter Wheat", color |-> "#d4a017", L0 |-> "Cropland", L1 |-> "Cereals",
   L2 |-> "Wheat", L3 |-> "Winter Wheat"],
  [name |-> "Wheat", color |-> "#a57000", L0 |-> "Cropland", L2 |-> "Wheat"],
  [name |-> "Clover", color |-> "#00cd66", L0 |-> "Cropland", L1 |-> "Legumes",
   L2 |-> "Clover"],
  [name |-> "Grassland", color |-> "#7cfc00", L0 |-> "Grassland"],
  [name |-> "Italian Ryegrass", color |-> "#98fb98", L0 |-> "Cropland",
   L1 |-> "Fodder Crops", L2 |-> "Ryegrass"],
  [name |-> "Pulses", color |-> "#228b22", L0 |-> "Cropland", L1 |-> "Pulses"],
  [name |-> "Cover Wheat", color |-> "#d4a017", L0 |-> "Cropland", L1 |-> "Cereals",
   L2 |-> "Wheat", duration |-> "biennial"]
>>

\* Largest number of class entries in a registry of Spec (all sources together).
MaxEntries == 3

\* A source's "classes" dict: the codes are "1", "2", ... in registration order.
Classes(entries) == [i \in 1..Len(entries) |-> <<ToString(i), entries[i]>>]

\* DATASETS with the given entries for each of SourceIds.
Registry(lists) ==
  [i \in 1..Len(SourceIds) |->
     <<SourceIds[i], [meta |-> SourceMeta[SourceIds[i]], classes |-> Classes(lists[i])]>>]

\* Field values of the single entry the registries of SpecResolve hold.
Absent == "<absent>"

L0Options ==
  {Absent, "Cropland", "Grassland", "Forest", "Shrubland", "Water", "Urban", "Bare",
   "Snow/Ice", "Wetland", "Unknown", "Fallow"}

L1Options == {Absent, "Cereals", "Legumes", "Fodder Crops", "Fruits/Orchards", "Pulses"}

L2Options == {Absent, "", "Wheat", "Clover", "Ryegrass"}

DurationOptions == {Absent, "annual", "perennial", "biennial", "mixed"}

\* The dict that holds exactly the keys of r whose value is given.
Given(r) == [k \in {x \in DOMAIN r : r[x] # Absent} |-> r[k]]

VARIABLES
  DATASETS,      \* the module global: ds_id -> {meta, classes: code -> entry}
  HIERARCHY,     \* the module global: level -> name -> node
  l2_cross_ref,  \* build_output's local
  summary,       \* build_output's local
  data,          \* main's local: the document build_output returned, or NoDocument
  artifact,      \* crop_classification_hierarchy.json: what was written, or NoDocument
  stdout,        \* what the current call of main has printed
  resolved,      \* history: per source and entry, the entry infer_duration was
                 \* given in the latest enrichment loop and the value it returned
  pc

vars == <<DATASETS, HIERARCHY, l2_cross_ref, summary, data, artifact, stdout, resolved, pc>>

\* ---------------------------------------------------------------------
\* infer_duration
\* ---------------------------------------------------------------------
\* Faulty variant: the Shrubland branch is missing.
infer_duration_L0_NoShrubland(cls) ==
  LET l0 == DictGet(cls, "L0", "") IN
  IF l0 \in {"Grassland", "Forest"} THEN "perennial" ELSE None

infer_duration_L0(cls) ==
  LET l0 == DictGet(cls, "L0", "") IN
  IF l0 = "Grassland" THEN "perennial"
  ELSE IF l0 = "Forest" THEN "perennial"
  ELSE IF l0 = "Shrubland" THEN "perennial"
  ELSE IF l0 \in {"Water", "Urban", "Bare", "Snow/Ice", "Wetland", "Unknown"} THEN None
  ELSE IF l0 = "Fallow" THEN None
  ELSE None

infer_duration_L1(cls) ==
  LET l1 == DictGet(cls, "L1", None) IN
  IF Truthy(l1) /\ l1 \in DOMAIN DictGet(HIERARCHY, "L1", EmptyDict)
       /\ "duration" \in DOMAIN HIERARCHY["L1"][l1]
    THEN HIERARCHY["L1"][l1]["duration"]
    ELSE infer_duration_L0(cls)

\* Faulty variant: the L1 category is consulted before the L2 type.
infer_duration_L1First(cls) ==
  LET l1 == DictGet(cls, "L1", None)
      l2 == DictGet(cls, "L2", None)
  IN
  IF Truthy(l1) /\ l1 \in DOMAIN DictGet(HIERARCHY, "L1", EmptyDict)
       /\ "duration" \in DOMAIN HIERARCHY["L1"][l1]
    THEN HIERARCHY["L1"][l1]["duration"]
  ELSE IF Truthy(l2) /\ l2 \in DOMAIN DictGet(HIERARCHY, "L2", EmptyDict)
       /\ "duration" \in DOMAIN HIERARCHY["L2"][l2]
    THEN HIERARCHY["L2"][l2]["duration"]
  ELSE infer_duration_L0(cls)

\* Faulty variant: an L2 name that the hierarchy does not hold ends the inference.
infer_duration_L2_Blocking(cls) ==
  LET l2 == DictGet(cls, "L2", None) IN
  IF Truthy(l2) /\ l2 \notin DOMAIN DictGet(HIERARCHY, "L2", EmptyDict)
    THEN None
  ELSE IF Truthy(l2) /\ "duration" \in DOMAIN HIERARCHY["L2"][l2]
    THEN HIERARCHY["L2"][l2]["duration"]
    ELSE infer_duration_L1(cls)

infer_duration_L2(cls) ==
  LET l2 == DictGet(cls, "L2", None) IN
  IF Truthy(l2) /\ l2 \in DOMAIN DictGet(HIERARCHY, "L2", EmptyDict)
       /\ "duration" \in DOMAIN HIERARCHY["L2"][l2]
    THEN HIERARCHY["L2"][l2]["duration"]
    ELSE infer_duration_L1(cls)

\* Faulty variant: the entry's own duration is used only when the hierarchy gives none.
infer_duration_HierarchyFirst(cls) ==
  LET h == infer_duration_L2(cls) IN
  IF h # None THEN h
  ELSE IF "duration" \in DOMAIN cls THEN cls["duration"]
  ELSE None

\* Faulty variant: an entry that already has a duration is taken to need no inference.
infer_duration_SkipExisting(cls) ==
  IF "duration" \in DOMAIN cls THEN None ELSE infer_duration_L2(cls)

infer_duration(cls) ==
  IF "duration" \in DOMAIN cls
    THEN cls["duration"]
    ELSE infer_duration_L2(cls)

\* ---------------------------------------------------------------------
\* build_output: the enrichment loop
\* ---------------------------------------------------------------------
\* Faulty variant: the "if dur" guard is missing.
EnrichClass_AlwaysWrite(cls) == DictSet(cls, "duration", infer_duration(cls))

\* Faulty variant: the loop also fills a missing L1 with the parent of the L2 node.
EnrichClass_FillL1(cls) ==
  LET dur == infer_duration(cls)
      c1 == IF Truthy(dur) THEN DictSet(cls, "duration", dur) ELSE cls
      l2 == DictGet(cls, "L2", None)
  IN IF "L1" \notin DOMAIN cls /\ Truthy(l2) /\ l2 \in DOMAIN DictGet(HIERARCHY, "L2", EmptyDict)
          /\ "parent" \in DOMAIN HIERARCHY["L2"][l2]
       THEN DictSet(c1, "L1", HIERARCHY["L2"][l2]["parent"])
       ELSE c1

\* Faulty variant: an entry for which nothing is inferred takes the duration of
\* the first entry of the registry that has one.
EnrichClass_Borrow(cls) ==
  LET dur == infer_duration(cls)
      has == {q \in UNION {{<<i, j>> : j \in 1..Len(DATASETS[i][2].classes)} :
                             i \in 1..Len(DATASETS)} :
                "duration" \in DOMAIN DATASETS[q[1]][2].classes[q[2]][2]}
      first == CHOOSE q \in has :
                 \A r \in has : q[1] < r[1] \/ (q[1] = r[1] /\ q[2] <= r[2])
  IN IF Truthy(dur) THEN DictSet(cls, "duration", dur)
     ELSE IF has # {} THEN DictSet(cls, "duration",
                                   DATASETS[first[1]][2].classes[first[2]][2]["duration"])
     ELSE cls

\* dur = infer_duration(cls); if dur: cls["duration"] = dur
EnrichClass(cls) ==
  LET dur == infer_duration(cls) IN
  IF Truthy(dur) THEN DictSet(cls, "duration", dur) ELSE cls

EnrichClasses(classes) ==
  [i \in 1..Len(classes) |-> <<classes[i][1], EnrichClass(classes[i][2])>>]

EnrichDatasets(D) ==
  [i \in 1..Len(D) |-> <<D[i][1], [D[i][2] EXCEPT !.classes = EnrichClasses(@)]>>]

\* What each call of infer_duration in the loop was given and returned.
Resolutions(D) ==
  [i \in 1..Len(D) |->
     [j \in 1..Len(D[i][2].classes) |->
        [cls |-> D[i][2].classes[j][2], dur |-> infer_duration(D[i][2].classes[j][2])]]]

\* ---------------------------------------------------------------------
\* build_output: the cross-reference loop
\* ---------------------------------------------------------------------
\* Faulty variant: the occurrence is put at the front of the source's list.
XrefAdd_Prepend(xref, ds_id, code, cls) ==
  LET l2 == DictGet(cls, "L2", None) IN
  IF Truthy(l2)
    THEN LET x1 == IF ~Has(xref, l2) THEN Put(xref, l2, <<>>) ELSE xref
             g1 == Lookup(x1, l2)
             g2 == IF ~Has(g1, ds_id) THEN Put(g1, ds_id, <<>>) ELSE g1
             occ == [code |-> code, name |-> cls["name"], L3 |-> DictGet(cls, "L3", None)]
         IN Put(x1, l2, Put(g2, ds_id, <<occ>> \o Lookup(g2, ds_id)))
    ELSE xref

\* Faulty variant: a new group starts with an empty list for every registered source.
XrefAdd_AllSources(xref, ds_id, code, cls) ==
  LET l2 == DictGet(cls, "L2", None) IN
  IF Truthy(l2)
    THEN LET x1 == IF ~Has(xref, l2)
                     THEN Put(xref, l2, [i \in 1..Len(DATASETS) |-> <<DATASETS[i][1], <<>> >>])
                     ELSE xref
             g1 == Lookup(x1, l2)
             g2 == IF ~Has(g1, ds_id) THEN Put(g1, ds_id, <<>>) ELSE g1
             occ == [code |-> code, name |-> cls["name"], L3 |-> DictGet(cls, "L3", None)]
         IN Put(x1, l2, Put(g2, ds_id, Append(Lookup(g2, ds_id), occ)))
    ELSE xref

\* Faulty variant: only an entry that gives both L1 and L2 is indexed.
XrefAdd_NeedsL1(xref, ds_id, code, cls) ==
  LET l2 == DictGet(cls, "L2", None) IN
  IF Truthy(l2) /\ Truthy(DictGet(cls, "L1", None))
    THEN LET x1 == IF ~Has(xref, l2) THEN Put(xref, l2, <<>>) ELSE xref
             g1 == Lookup(x1, l2)
             g2 == IF ~Has(g1, ds_id) THEN Put(g1, ds_id, <<>>) ELSE g1
             occ == [code |-> code, name |-> cls["name"], L3 |-> DictGet(cls, "L3", None)]
         IN Put(x1, l2, Put(g2, ds_id, Append(Lookup(g2, ds_id), occ)))
    ELSE xref

\* The body of the inner loop for one entry.
XrefAdd(xref, ds_id, code, cls) ==
  LET l2 == DictGet(cls, "L2", None) IN
  IF Truthy(l2)
    THEN LET x1 == IF ~Has(xref, l2) THEN Put(xref, l2, <<>>) ELSE xref
             g1 == Lookup(x1, l2)
             g2 == IF ~Has(g1, ds_id) THEN Put(g1, ds_id, <<>>) ELSE g1
             occ == [code |-> code, name |-> cls["name"], L3 |-> DictGet(cls, "L3", None)]
         IN Put(x1, l2, Put(g2, ds_id, Append(Lookup(g2, ds_id), occ)))
    ELSE xref

RECURSIVE XrefClasses(_, _, _, _)
XrefClasses(xref, ds_id, classes, j) ==
  IF j > Len(classes)
    THEN xref
    ELSE XrefClasses(XrefAdd(xref, ds_id, classes[j][1], classes[j][2]), ds_id, classes, j + 1)

\* Faulty variant: no source is skipped.
XrefSource_NoSkip(xref, ds_id, ds) == XrefClasses(xref, ds_id, ds.classes, 1)

\* The body of the outer loop for one source.
XrefSource(xref, ds_id, ds) ==
  IF ds_id = "meta" THEN xref ELSE XrefClasses(xref, ds_id, ds.classes, 1)

RECURSIVE XrefDatasets(_, _, _)
XrefDatasets(xref, D, i) ==
  IF i > Len(D)
    THEN xref
    ELSE XrefDatasets(XrefSource(xref, D[i][1], D[i][2]), D, i + 1)

\* ---------------------------------------------------------------------
\* build_output: the summary loop
\* ---------------------------------------------------------------------
\* Faulty variant: the count is set to 1 instead of being incremented.
Bump_Reset(counts, k) == Put(counts, k, 1)

\* counts[k] = counts.get(k, 0) + 1
Bump(counts, k) == Put(counts, k, OdGet(counts, k, 0) + 1)

\* Faulty variant: an entry without L1 is tallied under "Unknown", as for L0.
TallyAdd_L1Default(counts, cls) ==
  LET l0 == DictGet(cls, "L0", "Unknown")
      l1 == DictGet(cls, "L1", "Unknown")
  IN <<Bump(counts[1], l0), IF Truthy(l1) THEN Bump(counts[2], l1) ELSE counts[2]>>

\* Faulty variant: an entry without L0 is left out of the L0 tally.
TallyAdd_SkipNoL0(counts, cls) ==
  LET l1 == DictGet(cls, "L1", None)
  IN <<IF "L0" \in DOMAIN cls THEN Bump(counts[1], cls["L0"]) ELSE counts[1],
       IF Truthy(l1) THEN Bump(counts[2], l1) ELSE counts[2]>>

\* The body of the tally loop for one entry, on <<l0_counts, l1_counts>>.
TallyAdd(counts, cls) ==
  LET l0 == DictGet(cls, "L0", "Unknown")
      l1 == DictGet(cls, "L1", None)
  IN <<Bump(counts[1], l0), IF Truthy(l1) THEN Bump(counts[2], l1) ELSE counts[2]>>

RECURSIVE TallyClasses(_, _, _)
TallyClasses(counts, classes, j) ==
  IF j > Len(classes)
    THEN counts
    ELSE TallyClasses(TallyAdd(counts, classes[j][2]), classes, j + 1)

\* Faulty variant: the L0 tally starts with a zero for every L0 of the hierarchy.
SummaryOf_Dense(ds_id, ds) ==
  LET names == <<"Cropland", "Grassland", "Forest", "Shrubland", "Water", "Urban", "Bare",
                 "Wetland", "Snow/Ice", "Fallow", "Unknown">>
      zeros == [n \in 1..Len(names) |-> <<names[n], 0>>]
      counts == TallyClasses(<<zeros, <<>> >>, ds.classes, 1)
  IN [label |-> DictGet(ds.meta, "label", ds_id),
      country |-> DictGet(ds.meta, "country", ""),
      resolution |-> DictGet(ds.meta, "resolution", ""),
      type |-> DictGet(ds.meta, "type", ""),
      total_classes |-> Len(ds.classes),
      L0_distribution |-> counts[1],
      L1_distribution |-> counts[2]]

SummaryOf(ds_id, ds) ==
  LET counts == TallyClasses(<< <<>>, <<>> >>, ds.classes, 1) IN
  [label |-> DictGet(ds.meta, "label", ds_id),
   country |-> DictGet(ds.meta, "country", ""),
   resolution |-> DictGet(ds.meta, "resolution", ""),
   type |-> DictGet(ds.meta, "type", ""),
   total_classes |-> Len(ds.classes),
   L0_distribution |-> counts[1],
   L1_distribution |-> counts[2]]

\* Faulty variant: a source without entries gets no record.
SummaryDatasets_NonEmpty(D) ==
  SelectSeq([i \in 1..Len(D) |-> <<D[i][1], SummaryOf(D[i][1], D[i][2])>>],
            LAMBDA r : r[2].total_classes > 0)

SummaryDatasets(D) == [i \in 1..Len(D) |-> <<D[i][1], SummaryOf(D[i][1], D[i][2])>>]

\* The document build_output returns.  Its "hierarchy" and "datasets" values
\* are the globals themselves, not copies: Output holds what the document
\* owns, and Document(d) is the document read through those references.
\* Faulty variant: the generation marker depends on the file an earlier run
\* has left.
Output_Stamped ==
  ("_description" :> "Crop and land cover classification hierarchy across all map datasets. L0=Land surface type, L1=Crop category, L2=Crop type, L3=Seasonal variant. Generated by analyse_classes.py.") @@
  ("_generated" :> IF artifact = NoDocument THEN "2026-03-01" ELSE "rerun") @@
  ("cross_reference_L2" :> l2_cross_ref) @@
  ("summary" :> summary)

Output ==
  ("_description" :> "Crop and land cover classification hierarchy across all map datasets. L0=Land surface type, L1=Crop category, L2=Crop type, L3=Seasonal variant. Generated by analyse_classes.py.") @@
  ("_generated" :> "2026-03-01") @@
  ("cross_reference_L2" :> l2_cross_ref) @@
  ("summary" :> summary)

Document(d) == d @@ ("hierarchy" :> HIERARCHY) @@ ("datasets" :> DATASETS)

\* ---------------------------------------------------------------------
\* print_report
\* ---------------------------------------------------------------------
\* The strings print_report sorts (L0 names and source ids), in the order
\* Python's sorted gives them: by code point, upper case before lower case.
SortedStrings ==
  <<"Bare", "Cropland", "Fallow", "Forest", "Grassland", "Shrubland", "Snow/Ice",
    "Unknown", "Urban", "Water", "Wetland", "argentina", "australia", "canada", "crome",
    "dea-landcover", "deafrica-crop", "esa-worldcover", "eurocrops", "germany",
    "gfsad-croplands", "jrc-eucropmap", "meta", "modis-landcover", "newzealand", "usda-cdl",
    "worldcereal", "worldcereal-maize", "worldcereal-spring", "worldcereal-winter">>

\* sorted(S) for a set S of such strings
Sorted(S) == SelectSeq(SortedStrings, LAMBDA x : x \in S)

\* The report is the sequence of its data lines, each a record of the values
\* the line formats; headings, rules and blank lines are left out.

\* "DATASETS:" one line per summary record
ReportDatasets(d) ==
  [i \in 1..Len(d["summary"]) |->
     [section |-> "DATASETS", ds_id |-> d["summary"][i][1],
      label |-> d["summary"][i][2].label,
      total_classes |-> d["summary"][i][2].total_classes,
      resolution |-> d["summary"][i][2].resolution]]

\* "L0 (LAND SURFACE TYPE)": the header and one row per summary record;
\* a count of 0 is printed as a blank cell
ReportL0(d) ==
  LET all_l0 == Sorted(UNION {KeySet(d["summary"][i][2].L0_distribution) :
                                i \in 1..Len(d["summary"])})
  IN <<[section |-> "L0", header |-> all_l0]>> \o
     [i \in 1..Len(d["summary"]) |->
        [section |-> "L0", ds_id |-> d["summary"][i][1],
         row |-> [n \in 1..Len(all_l0) |->
                    LET count == OdGet(d["summary"][i][2].L0_distribution, all_l0[n], 0)
                    IN IF count # 0 THEN ToString(count) ELSE ""]]]

\* sorted(items, key=lambda x: -len(x[1])): a stable sort, so groups with the
\* same number of sources stay in the order the index holds them
RECURSIVE InsertBySources(_, _)
InsertBySources(sorted, item) ==
  IF sorted = <<>> THEN <<item>>
  ELSE IF Len(sorted[Len(sorted)][2]) >= Len(item[2]) THEN Append(sorted, item)
  ELSE Append(InsertBySources(SubSeq(sorted, 1, Len(sorted) - 1), item), sorted[Len(sorted)])

RECURSIVE SortBySources(_, _)
SortBySources(items, n) ==
  IF n = 0 THEN <<>> ELSE InsertBySources(SortBySources(items, n - 1), items[n])

\* "L2 (CROP TYPE)": one line per group that holds 2 or more sources
ReportL2(d) ==
  LET items == SortBySources(d["cross_reference_L2"], Len(d["cross_reference_L2"]))
      shown == SelectSeq(items, LAMBDA x : Len(x[2]) >= 2)
  IN [i \in 1..Len(shown) |->
        [section |-> "L2", l2 |-> shown[i][1], n |-> Len(shown[i][2]),
         ds_list |-> Sorted(KeySet(shown[i][2]))]]

\* Faulty variant: every duration that is not annual or perennial counts as mixed.
DurationCount_Else(classes, dur) ==
  IF dur = "mixed"
    THEN Len(SelectSeq(classes, LAMBDA e : /\ "duration" \in DOMAIN e[2]
                                           /\ e[2]["duration"] \notin {"annual", "perennial"}))
    ELSE Len(SelectSeq(classes, LAMBDA e : DictGet(e[2], "duration", None) = dur))

\* The number of entries of a source whose "duration" is dur.
DurationCount(classes, dur) ==
  Len(SelectSeq(classes, LAMBDA e : DictGet(e[2], "duration", None) = dur))

\* "ANNUAL vs PERENNIAL": one line per source that has a non-zero count
ReportDurations(d) ==
  LET line(i) == [section |-> "DURATION", ds_id |-> d["datasets"][i][1],
                  annual |-> DurationCount(d["datasets"][i][2].classes, "annual"),
                  perennial |-> DurationCount(d["datasets"][i][2].classes, "perennial"),
                  mixed |-> DurationCount(d["datasets"][i][2].classes, "mixed")]
      all == [i \in 1..Len(d["datasets"]) |-> line(i)]
  IN SelectSeq(all, LAMBDA l : l.annual + l.perennial + l.mixed > 0)

\* The number of names a line of the last section shows at most.
DisplayLimit == 10

\* Faulty variant: the suffix is added from DisplayLimit names on.
ReportUnique_OffByOne(d) ==
  LET unique(i) == SelectSeq(d["datasets"][i][2].classes,
                             LAMBDA e : /\ DictGet(e[2], "L0", None) = "Cropland"
                                        /\ ~Truthy(DictGet(e[2], "L2", None)))
      line(i) ==
        LET u == unique(i)
            first == IF Len(u) > DisplayLimit THEN SubSeq(u, 1, DisplayLimit) ELSE u
        IN [section |-> "UNIQUE", ds_id |-> d["datasets"][i][1],
            names |-> [n \in 1..Len(first) |-> first[n][2]["name"]],
            extra |-> IF Len(u) >= DisplayLimit
                        THEN " (+" \o ToString(Len(u) - DisplayLimit) \o " more)"
                        ELSE ""]
      all == [i \in 1..Len(d["datasets"]) |-> line(i)]
  IN SelectSeq(all, LAMBDA l : l.names # <<>>)

\* "DATASET-SPECIFIC CROP CLASSES": one line per source that has a Cropland
\* entry without L2
ReportUnique(d) ==
  LET unique(i) == SelectSeq(d["datasets"][i][2].classes,
                             LAMBDA e : /\ DictGet(e[2], "L0", None) = "Cropland"
                                        /\ ~Truthy(DictGet(e[2], "L2", None)))
      line(i) ==
        LET u == unique(i)
            first == IF Len(u) > DisplayLimit THEN SubSeq(u, 1, DisplayLimit) ELSE u
        IN [section |-> "UNIQUE", ds_id |-> d["datasets"][i][1],
            names |-> [n \in 1..Len(first) |-> first[n][2]["name"]],
            extra |-> IF Len(u) > DisplayLimit
                        THEN " (+" \o ToString(Len(u) - DisplayLimit) \o " more)"
                        ELSE ""]
      all == [i \in 1..Len(d["datasets"]) |-> line(i)]
  IN SelectSeq(all, LAMBDA l : l.names # <<>>)

print_report(d) ==
  ReportDatasets(d) \o ReportL0(d) \o ReportL2(d) \o ReportDurations(d) \o ReportUnique(d)

\* ---------------------------------------------------------------------
\* The run: main calls build_output, writes the document, prints the report
\* ---------------------------------------------------------------------
Init ==
  /\ \E k \in 0..MaxEntries : \E s \in [1..k -> 1..Len(Templates)] :
       \E p1 \in 0..k : \E p2 \in p1..k :
         DATASETS = Registry(<<[i \in 1..p1 |-> Templates[s[i]]],
                               [i \in 1..(p2 - p1) |-> Templates[s[p1 + i]]],
                               [i \in 1..(k - p2) |-> Templates[s[p2 + i]]]>>)
  /\ HIERARCHY = ShippedHierarchy
  /\ l2_cross_ref = <<>>
  /\ summary = <<>>
  /\ data = NoDocument
  /\ artifact = NoDocument
  /\ stdout = <<>>
  /\ resolved = <<>>
  /\ pc = "main"

\* One source with one entry, of every shape, under every hierarchy fixture.
InitResolve ==
  /\ \E l0 \in L0Options, l1 \in L1Options, l2 \in L2Options, dur \in DurationOptions :
       DATASETS = Registry(<< <<Given([name |-> "Class", color |-> "#808080", L0 |-> l0,
                                       L1 |-> l1, L2 |-> l2, L3 |-> Absent,
                                       duration |-> dur])>>, <<>>, <<>> >>)
  /\ HIERARCHY \in HierarchyFixtures
  /\ l2_cross_ref = <<>>
  /\ summary = <<>>
  /\ data = NoDocument
  /\ artifact = NoDocument
  /\ stdout = <<>>
  /\ resolved = <<>>
  /\ pc = "main"

\* build_output, lines 804-809
Enrich ==
  /\ pc = "main"
  /\ resolved' = Resolutions(DATASETS)
  /\ DATASETS' = EnrichDatasets(DATASETS)
  /\ pc' = "enriched"
  /\ UNCHANGED <<HIERARCHY, l2_cross_ref, summary, data, artifact, stdout>>

\* Faulty variant: the cross-reference loop runs without the enrichment loop
\* before it.
CrossReference_Early ==
  /\ pc \in {"main", "enriched"}
  /\ l2_cross_ref' = XrefDatasets(<<>>, DATASETS, 1)
  /\ pc' = "indexed"
  /\ UNCHANGED <<DATASETS, HIERARCHY, summary, data, artifact, stdout, resolved>>

\* build_output, lines 811-827
CrossReference ==
  /\ pc = "enriched"
  /\ l2_cross_ref' = XrefDatasets(<<>>, DATASETS, 1)
  /\ pc' = "indexed"
  /\ UNCHANGED <<DATASETS, HIERARCHY, summary, data, artifact, stdout, resolved>>

\* build_output, lines 829-850
Summarise ==
  /\ pc = "indexed"
  /\ summary' = SummaryDatasets(DATASETS)
  /\ pc' = "summarised"
  /\ UNCHANGED <<DATASETS, HIERARCHY, l2_cross_ref, data, artifact, stdout, resolved>>

\* build_output, lines 852-862, and the assignment in main
Return ==
  /\ pc = "summarised"
  /\ data' = Output
  /\ pc' = "built"
  /\ UNCHANGED <<DATASETS, HIERARCHY, l2_cross_ref, summary, artifact, stdout, resolved>>

\* main, lines 938-943
WriteArtifact ==
  /\ pc = "built"
  /\ artifact' = Document(data)
  /\ stdout' = Append(stdout, [section |-> "Written"])
  /\ pc' = "written"
  /\ UNCHANGED <<DATASETS, HIERARCHY, l2_cross_ref, summary, data, resolved>>

\* main, line 946
PrintReport ==
  /\ pc = "written"
  /\ stdout' = stdout \o print_report(Document(data))
  /\ pc' = "done"
  /\ UNCHANGED <<DATASETS, HIERARCHY, l2_cross_ref, summary, data, artifact, resolved>>

\* main is called again in the same process: the globals keep their values
Rerun ==
  /\ pc = "done"
  /\ stdout' = <<>>
  /\ pc' = "main"
  /\ UNCHANGED <<DATASETS, HIERARCHY, l2_cross_ref, summary, data, artifact, resolved>>

\* Class entries the registries of SpecSummary are built from: with and
\* without L1, with L2 and no L1, and with no L0 at all.
SummaryTemplates == <<
  [name |-> "Winter Wheat", color |-> "#d4a017", L0 |-> "Cropland", L1 |-> "Cereals",
   L2 |-> "Wheat", L3 |-> "Winter Wheat"],
  [name |-> "Clover", color |-> "#00cd66", L0 |-> "Cropland", L1 |-> "Legumes",
   L2 |-> "Clover"],
  [name |-> "Grassland", color |-> "#7cfc00", L0 |-> "Grassland"],
  [name |-> "Wheat", color |-> "#a57000", L0 |-> "Cropland", L2 |-> "Wheat"],
  [name |-> "No data", color |-> "#000000"]
>>

InitSummary ==
  /\ \E k \in 0..MaxEntries : \E s \in [1..k -> 1..Len(SummaryTemplates)] :
       \E p1 \in 0..k : \E p2 \in p1..k :
         DATASETS = Registry(<<[i \in 1..p1 |-> SummaryTemplates[s[i]]],
                               [i \in 1..(p2 - p1) |-> SummaryTemplates[s[p1 + i]]],
                               [i \in 1..(k - p2) |-> SummaryTemplates[s[p2 + i]]]>>)
  /\ HIERARCHY = ShippedHierarchy
  /\ l2_cross_ref = <<>>
  /\ summary = <<>>
  /\ data = NoDocument
  /\ artifact = NoDocument
  /\ stdout = <<>>
  /\ resolved = <<>>
  /\ pc = "main"

\* The sources of the registries of SpecReport: three that the
\* cross-reference loop indexes.
ReportSourceIds == <<"crome", "germany", "usda-cdl">>

ReportRegistry(lists) ==
  [i \in 1..Len(ReportSourceIds) |->
     <<ReportSourceIds[i],
       [meta |-> SourceMeta[ReportSourceIds[i]], classes |-> Classes(lists[i])]>>]

\* Class entries with an L2, the groups of the cross-reference.
GroupTemplates == <<
  [name |-> "Wheat", color |-> "#a57000", L0 |-> "Cropland", L2 |-> "Wheat"],
  [name |-> "Clover", color |-> "#00cd66", L0 |-> "Cropland", L1 |-> "Legumes",
   L2 |-> "Clover"],
  [name |-> "Barley", color |-> "#ff00ff", L0 |-> "Cropland", L1 |-> "Cereals",
   L2 |-> "Barley"]
>>

\* Cropland entries without an L2, and entries that are not of that kind.
UniqueTemplates == <<
  [name |-> "Other cereals", color |-> "#c8a080", L0 |-> "Cropland", L1 |-> "Cereals"],
  [name |-> "Other root crops", color |-> "#00a000", L0 |-> "Cropland",
   L1 |-> "Root Crops"]
>>

OtherTemplates == <<
  [name |-> "Barley", color |-> "#ff00ff", L0 |-> "Cropland", L1 |-> "Cereals",
   L2 |-> "Barley"],
  [name |-> "Grassland", color |-> "#7cfc00", L0 |-> "Grassland"]
>>

\* Largest number of entries with an L2 in a registry of SpecReport.
MaxReportEntries == 5

\* Largest number of entries of the first source in a registry of SpecReport
\* that lists Cropland entries without an L2.
MaxUnique == 11

\* Either up to MaxReportEntries entries with an L2 spread over the three
\* sources, or a first source of up to MaxUnique entries, all Cropland
\* without an L2 except at most one, next to a source with none.
InitReport ==
  /\ \/ \E k \in 0..MaxReportEntries : \E s \in [1..k -> 1..Len(GroupTemplates)] :
          \E p1 \in 0..k : \E p2 \in p1..k :
            DATASETS = ReportRegistry(<<[i \in 1..p1 |-> GroupTemplates[s[i]]],
                                        [i \in 1..(p2 - p1) |-> GroupTemplates[s[p1 + i]]],
                                        [i \in 1..(k - p2) |-> GroupTemplates[s[p2 + i]]]>>)
     \/ \E n \in 0..MaxUnique : \E q \in 0..n : \E o \in 0..1 :
          \E f \in 1..Len(OtherTemplates) :
            DATASETS = ReportRegistry(<<[j \in 1..n |->
                                           IF j = q THEN OtherTemplates[f]
                                           ELSE UniqueTemplates[((j + o) % 2) + 1]],
                                        <<OtherTemplates[2]>>,
                                        <<>> >>)
  /\ HIERARCHY = ShippedHierarchy
  /\ l2_cross_ref = <<>>
  /\ summary = <<>>
  /\ data = NoDocument
  /\ artifact = NoDocument
  /\ stdout = <<>>
  /\ resolved = <<>>
  /\ pc = "main"

\* The registry as the module registers it (lines 119-767): for every source
\* the fields of "meta" that build_output and print_report read, and every
\* class entry under its code, in registration order.
ShippedDatasets == <<
  <<"crome",
    [meta |-> [label |-> "England CROME", country |-> "England",
               resolution |-> "~5m (vector parcels)", type |-> "vector"],
     classes |-> <<
       <<"AC66", [name |-> "Winter Wheat", color |-> "#d4a017",
              L0 |-> "Cropland", L1 |-> "Cereals", L2 |-> "Wheat", L3 |-> "Winter Wheat"]>>,
       <<"AC32", [name |-> "Spring Wheat", color |-> "#f0d000",
              L0 |-> "Cropland", L1 |-> "Cereals", L2 |-> "Wheat", L3 |-> "Spring Wheat"]>>,
       <<"AC63", [name |-> "Winter Barley", color |-> "#ccaa00",
              L0 |-> "Cropland", L1 |-> "Cereals", L2 |-> "Barley", L3 |-> "Winter Barley"]>>,
       <<"AC01", [name |-> "Spring Barley", color |-> "#e6b800",
              L0 |-> "Cropland", L1 |-> "Cereals", L2 |-> "Barley", L3 |-> "Spring Barley"]>>,
       <<"AC19", [name |-> "Spring Oats", color |-> "#e8c840",
              L0 |-> "Cropland", L1 |-> "Cereals", L2 |-> "Oats", L3 |-> "Spring Oats"]>>,
       <<"AC65", [name |-> "Winter Oats", color |-> "#c9a830",
              L0 |-> "Cropland", L1 |-> "Cereals", L2 |-> "Oats", L3 |-> "Winter Oats"]>>,
       <<"AC24", [name |-> "Spring Rye", color |-> "#d4aa50",
              L0 |-> "Cropland", L1 |-> "Cereals", L2 |-> "Rye", L3 |-> "Spring Rye"]>>,
       <<"AC68", [name |-> "Winter Rye", color |-> "#b89830",
              L0 |-> "Cropland", L1 |-> "Cereals", L2 |-> "Rye", L3 |-> "Winter Rye"]>>,
       <<"AC30", [name |-> "Spring Triticale", color |-> "#c8a848",
              L0 |-> "Cropland", L1 |-> "Cereals", L2 |-> "Triticale", L3 |-> "Spring Triticale"]>>,
       <<"AC69", [name |-> "Winter Triticale", color |-> "#a89030",
              L0 |-> "Cropland", L1 |-> "Cereals", L2 |-> "Triticale", L3 |-> "Winter Triticale"]>>,
       <<"AC17", [name |-> "Maize", color |-> "#f5c71a",
              L0 |-> "Cropland", L1 |-> "Cereals", L2 |-> "Maize"]>>,
       <<"AC18", [name |-> "Millet", color |-> "#f4a460",
              L0 |-> "Cropland", L1 |-> "Cereals", L2 |-> "Millet"]>>,
       <<"AC92", [name |-> "Sorghum", color |-> "#b8860b",
              L0 |-> "Cropland", L1 |-> "Cereals", L2 |-> "Sorghum"]>>,
       <<"AC05", [name |-> "Buckwheat", color |-> "#bc8f8f",
              L0 |-> "Cropland", L1 |-> "Cereals", L2 |-> "Wheat", L3 |-> "Buckwheat"]>>,
       <<"AC100", [name |-> "Italian Ryegrass", color |-> "#98fb98",
              L0 |-> "Cropland", L1 |-> "Fodder Crops", L2 |-> "Wheat"]>>,
       <<"AC36", [name |-> "Spring Oilseed", color |-> "#ffe135",
              L0 |-> "Cropland", L1 |-> "Oilseeds", L2 |-> "Rapeseed", L3 |-> "Spring Rapeseed"]>>,
       <<"AC67", [name |-> "Winter Oilseed", color |-> "#ffd700",
              L0 |-> "Cropland", L1 |-> "Oilseeds", L2 |-> "Rapeseed", L3 |-> "Winter Rapeseed"]>>,
       <<"AC16", [name |-> "Spring Linseed", color |-> "#e8d44d",
              L0 |-> "Cropland", L1 |-> "Oilseeds", L2 |-> "Flax/Linseed", L3 |-> "Spring Linseed"]>>,
       <<"AC64", [name |-> "Winter Linseed", color |-> "#d4c030",
              L0 |-> "Cropland", L1 |-> "Oilseeds", L2 |-> "Flax/Linseed", L3 |-> "Winter Linseed"]>>,
       <<"AC88", [name |-> "Sunflower", color |-> "#ffa500",
              L0 |-> "Cropland", L1 |-> "Oilseeds", L2 |-> "Sunflower"]>>,
       <<"AC37", [name |-> "Brown Mustard", color |-> "#f0e68c",
              L0 |-> "Cropland", L1 |-> "Oilseeds", L2 |-> "Mustard"]>>,
       <<"AC38", [name |-> "Mustard", color |-> "#eee8aa",
              L0 |-> "Cropland", L1 |-> "Oilseeds", L2 |-> "Mustard"]>>,
       <<"AC04", [name |-> "Borage", color |-> "#d2691e", L0 |-> "Cropland", L1 |-> "Oilseeds"]>>,
       <<"AC44", [name |-> "Potato", color |-> "#cd853f",
              L0 |-> "Cropland", L1 |-> "Root Crops", L2 |-> "Potato"]>>,
       <<"AC03", [name |-> "Beet", color |-> "#e07020",
              L0 |-> "Cropland", L1 |-> "Root Crops", L2 |-> "Sugar Beet"]>>,
       <<"AC07", [name |-> "Carrot", color |-> "#ff8c00",
              L0 |-> "Cropland", L1 |-> "Root Crops", L2 |-> "Carrot"]>>,
       <<"AC23", [name |-> "Parsnips", color |-> "#ffdab9",
              L0 |-> "Cropland", L1 |-> "Root Crops"]>>,
       <<"AC35", [name |-> "Turnip", color |-> "#dda0dd",
              L0 |-> "Cropland", L1 |-> "Root Crops", L2 |-> "Turnip"]>>,
       <<"AC41", [name |-> "Radish", color |-> "#ff7f7f", L0 |-> "Cropland", L1 |-> "Root Crops"]>>,
       <<"AC20", [name |-> "Onions", color |-> "#daa520",
              L0 |-> "Cropland", L1 |-> "Vegetables", L2 |-> "Onion"]>>,
       <<"AC45", [name |-> "Tomato", color |-> "#ff4500",
              L0 |-> "Cropland", L1 |-> "Vegetables", L2 |-> "Tomato"]>>,
       <<"AC15", [name |-> "Lettuce", color |-> "#90ee90",
              L0 |-> "Cropland", L1 |-> "Vegetables", L2 |-> "Lettuce"]>>,
       <<"AC34", [name |-> "Spring Cabbage", color |-> "#66cdaa",
              L0 |-> "Cropland", L1 |-> "Vegetables", L2 |-> "Cabbage"]>>,
       <<"AC70", [name |-> "Winter Cabbage", color |-> "#5f9ea0",
              L0 |-> "Cropland", L1 |-> "Vegetables", L2 |-> "Cabbage"]>>,
       <<"AC26", [name |-> "Spinach", color |-> "#2e8b57",
              L0 |-> "Cropland", L1 |-> "Vegetables", L2 |-> "Spinach"]>>,
       <<"AC22", [name |-> "Parsley", color |-> "#3cb371",
              L0 |-> "Cropland", L1 |-> "Vegetables"]>>,
       <<"AC09", [name |-> "Chicory", color |-> "#8fbc8f",
              L0 |-> "Cropland", L1 |-> "Vegetables"]>>,
       <<"AC50", [name |-> "Squash", color |-> "#ff8c69", L0 |-> "Cropland", L1 |-> "Vegetables"]>>,
       <<"AC52", [name |-> "Siam Pumpkin", color |-> "#ffa07a",
              L0 |-> "Cropland", L1 |-> "Vegetables"]>>,
       <<"AC14", [name |-> "Hemp", color |-> "#9acd32",
              L0 |-> "Cropland", L1 |-> "Industrial Crops", L2 |-> "Hemp"]>>,
       <<"AC06", [name |-> "Canary Seed", color |-> "#deb887",
              L0 |-> "Cropland", L1 |-> "Cereals"]>>,
       <<"AC71", [name |-> "Coriander", color |-> "#7fff00",
              L0 |-> "Cropland", L1 |-> "Industrial Crops"]>>,
       <<"AC72", [name |-> "Corn Gromwell", color |-> "#6b8e23",
              L0 |-> "Cropland", L1 |-> "Industrial Crops"]>>,
       <<"AC74", [name |-> "Phacelia", color |-> "#8a2be2",
              L0 |-> "Cropland", L1 |-> "Industrial Crops"]>>,
       <<"AC81", [name |-> "Poppy", color |-> "#ff1493",
              L0 |-> "Cropland", L1 |-> "Industrial Crops"]>>,
       <<"AC10", [name |-> "Daffodil", color |-> "#ffff00", L0 |-> "Cropland", L1 |-> "Flowers"]>>,
       <<"AC90", [name |-> "Gladioli", color |-> "#ff69b4", L0 |-> "Cropland", L1 |-> "Flowers"]>>,
       <<"AC94", [name |-> "Sweet William", color |-> "#c71585",
              L0 |-> "Cropland", L1 |-> "Flowers"]>>,
       <<"LG01", [name |-> "Chickpea", color |-> "#556b2f",
              L0 |-> "Cropland", L1 |-> "Legumes", L2 |-> "Chickpea"]>>,
       <<"LG02", [name |-> "Fenugreek", color |-> "#6b8e23", L0 |-> "Cropland", L1 |-> "Legumes"]>>,
       <<"LG03", [name |-> "Spring Field Beans", color |-> "#228b22",
              L0 |-> "Cropland", L1 |-> "Legumes", L2 |-> "Beans", L3 |-> "Spring Field Beans"]>>,
       <<"LG20", [name |-> "Winter Field Beans", color |-> "#006400",
              L0 |-> "Cropland", L1 |-> "Legumes", L2 |-> "Beans", L3 |-> "Winter Field Beans"]>>,
       <<"LG04", [name |-> "Green Beans", color |-> "#32cd32",
              L0 |-> "Cropland", L1 |-> "Legumes", L2 |-> "Beans"]>>,
       <<"LG06", [name |-> "Lupins", color |-> "#00fa9a",
              L0 |-> "Cropland", L1 |-> "Legumes", L2 |-> "Lupin"]>>,
       <<"LG07", [name |-> "Spring Peas", color |-> "#00ff7f",
              L0 |-> "Cropland", L1 |-> "Legumes", L2 |-> "Peas", L3 |-> "Spring Peas"]>>,
       <<"LG21", [name |-> "Winter Peas", color |-> "#008b45",
              L0 |-> "Cropland", L1 |-> "Legumes", L2 |-> "Peas", L3 |-> "Winter Peas"]>>,
       <<"LG08", [name |-> "Soya", color |-> "#3cb371",
              L0 |-> "Cropland", L1 |-> "Legumes", L2 |-> "Beans"]>>,
       <<"LG09", [name |-> "Cowpea", color |-> "#20b2aa",
              L0 |-> "Cropland", L1 |-> "Legumes", L2 |-> "Beans"]>>,
       <<"LG11", [name |-> "Lucerne", color |-> "#2e8b57",
              L0 |-> "Cropland", L1 |-> "Legumes", L2 |-> "Lucerne"]>>,
       <<"LG13", [name |-> "Sainfoin", color |-> "#66cdaa", L0 |-> "Cropland", L1 |-> "Legumes"]>>,
       <<"LG14", [name |-> "Clover", color |-> "#00cd66",
              L0 |-> "Cropland", L1 |-> "Legumes", L2 |-> "Clover"]>>,
       <<"LG15", [name |-> "Mixed Leguminous 1", color |-> "#4f7942",
              L0 |-> "Cropland", L1 |-> "Legumes"]>>,
       <<"LG16", [name |-> "Mixed Leguminous 2", color |-> "#3a6b35",
              L0 |-> "Cropland", L1 |-> "Legumes"]>>,
       <<"AC27", [name |-> "Strawberry", color |-> "#ff6347",
              L0 |-> "Cropland", L1 |-> "Fruits/Orchards", L2 |-> "Strawberry"]>>,
       <<"TC01", [name |-> "Perennial Crops/Trees", color |-> "#006400",
              L0 |-> "Cropland", L1 |-> "Fruits/Orchards"]>>,
       <<"NU01", [name |-> "Nursery Crops", color |-> "#228b22",
              L0 |-> "Cropland", L1 |-> "Nursery"]>>,
       <<"PG01", [name |-> "Grass", color |-> "#7cfc00", L0 |-> "Grassland"]>>,
       <<"HE02", [name |-> "Heathland/Bracken", color |-> "#9370db", L0 |-> "Shrubland"]>>,
       <<"HEAT", [name |-> "Heather", color |-> "#8b668b", L0 |-> "Shrubland"]>>,
       <<"FA01", [name |-> "Fallow Land", color |-> "#f5deb3", L0 |-> "Fallow"]>>,
       <<"CA02", [name |-> "Cover Crop", color |-> "#bdb76b",
              L0 |-> "Cropland", L1 |-> "Fodder Crops"]>>,
       <<"SR01", [name |-> "Short Rotation Coppice", color |-> "#8b4513", L0 |-> "Forest"]>>,
       <<"WO12", [name |-> "Trees/Scrubs/Hedgerows", color |-> "#2f4f4f", L0 |-> "Forest"]>>,
       <<"NA01", [name |-> "Non-vegetated Land", color |-> "#a9a9a9", L0 |-> "Bare"]>>,
       <<"WA00", [name |-> "Water", color |-> "#4682b4", L0 |-> "Water"]>>,
       <<"AC58", [name |-> "Mixed Crop 1", color |-> "#d2b48c",
              L0 |-> "Cropland", L1 |-> "Mixed/Other Crops"]>>,
       <<"AC59", [name |-> "Mixed Crop 2", color |-> "#c4a882",
              L0 |-> "Cropland", L1 |-> "Mixed/Other Crops"]>>,
       <<"AC60", [name |-> "Mixed Crop 3", color |-> "#b69a76",
              L0 |-> "Cropland", L1 |-> "Mixed/Other Crops"]>>,
       <<"AC61", [name |-> "Mixed Crop 4", color |-> "#a88c6a",
              L0 |-> "Cropland", L1 |-> "Mixed/Other Crops"]>>,
       <<"AC62", [name |-> "Mixed Crop 5", color |-> "#9a7e5e",
              L0 |-> "Cropland", L1 |-> "Mixed/Other Crops"]>>,
       <<"AC00", [name |-> "Unknown/Mixed Veg", color |-> "#808080", L0 |-> "Unknown"]>>
     >>]>>,
  <<"jrc-eucropmap",
    [meta |-> [label |-> "JRC EU Crop Map", country |-> "EU-27 + UK (2018)",
               resolution |-> "10m (Sentinel-2)", type |-> "raster"],
     classes |-> <<
       <<"1", [name |-> "Common wheat", color |-> "#a57000",
              L0 |-> "Cropland", L1 |-> "Cereals", L2 |-> "Wheat", L3 |-> "Common Wheat"]>>,
       <<"2", [name |-> "Durum wheat", color |-> "#6e4b00",
              L0 |-> "Cropland", L1 |-> "Cereals", L2 |-> "Wheat", L3 |-> "Durum Wheat"]>>,
       <<"3", [name |-> "Barley", color |-> "#ff00ff",
              L0 |-> "Cropland", L1 |-> "Cereals", L2 |-> "Barley"]>>,
       <<"4", [name |-> "Rye", color |-> "#800080",
              L0 |-> "Cropland", L1 |-> "Cereals", L2 |-> "Rye"]>>,
       <<"5", [name |-> "Oats", color |-> "#ff80ff",
              L0 |-> "Cropland", L1 |-> "Cereals", L2 |-> "Oats"]>>,
       <<"6", [name |-> "Maize", color |-> "#ffff00",
              L0 |-> "Cropland", L1 |-> "Cereals", L2 |-> "Maize"]>>,
       <<"7", [name |-> "Rice", color |-> "#00bfff",
              L0 |-> "Cropland", L1 |-> "Cereals", L2 |-> "Rice"]>>,
       <<"8", [name |-> "Triticale", color |-> "#d0d0d0",
              L0 |-> "Cropland", L1 |-> "Cereals", L2 |-> "Triticale"]>>,
       <<"9", [name |-> "Other cereals", color |-> "#c8a080",
              L0 |-> "Cropland", L1 |-> "Cereals"]>>,
       <<"10", [name |-> "Potatoes", color |-> "#c87000",
              L0 |-> "Cropland", L1 |-> "Root Crops", L2 |-> "Potato"]>>,
       <<"11", [name |-> "Sugar beet", color |-> "#ff00ff",
              L0 |-> "Cropland", L1 |-> "Root Crops", L2 |-> "Sugar Beet"]>>,
       <<"12", [name |-> "Other root crops", color |-> "#00a000",
              L0 |-> "Cropland", L1 |-> "Root Crops"]>>,
       <<"13", [name |-> "Other non-perm. industrial crops", color |-> "#008000",
              L0 |-> "Cropland", L1 |-> "Industrial Crops"]>>,
       <<"14", [name |-> "Sunflower", color |-> "#ffff80",
              L0 |-> "Cropland", L1 |-> "Oilseeds", L2 |-> "Sunflower"]>>,
       <<"15", [name |-> "Rape and turnip rape", color |-> "#c8ff00",
              L0 |-> "Cropland", L1 |-> "Oilseeds", L2 |-> "Rapeseed"]>>,
       <<"16", [name |-> "Soya", color |-> "#006000",
              L0 |-> "Cropland", L1 |-> "Legumes", L2 |-> "Beans"]>>,
       <<"17", [name |-> "Dry pulses", color |-> "#ff8000", L0 |-> "Cropland", L1 |-> "Legumes"]>>,
       <<"18", [name |-> "Fodder crops", color |-> "#ffc0ff",
              L0 |-> "Cropland", L1 |-> "Fodder Crops"]>>,
       <<"19", [name |-> "Bare arable land", color |-> "#606040", L0 |-> "Fallow"]>>,
       <<"20", [name |-> "Woodland and Shrubland (incl. permanent crops)", color |-> "#40c080",
              L0 |-> "Forest"]>>,
       <<"21", [name |-> "Grasslands", color |-> "#c0ffc0", L0 |-> "Grassland"]>>
     >>]>>,
  <<"germany",
    [meta |-> [label |-> "Germany DLR CropTypes", country |-> "Germany",
               resolution |-> "10m (Sentinel-1)", type |-> "raster"],
     classes |-> <<
       <<"1", [name |-> "Winter wheat", color |-> "#0000ff",
              L0 |-> "Cropland", L1 |-> "Cereals", L2 |-> "Wheat", L3 |-> "Winter Wheat"]>>,
       <<"2", [name |-> "Winter barley", color |-> "#00a0ff",
              L0 |-> "Cropland", L1 |-> "Cereals", L2 |-> "Barley", L3 |-> "Winter Barley"]>>,
       <<"3", [name |-> "Winter rye", color |-> "#ff00ff",
              L0 |-> "Cropland", L1 |-> "Cereals", L2 |-> "Rye", L3 |-> "Winter Rye"]>>,
       <<"4", [name |-> "Winter cereals", color |-> "#a000ff",
              L0 |-> "Cropland", L1 |-> "Cereals"]>>,
       <<"5", [name |-> "Spring wheat", color |-> "#0080ff",
              L0 |-> "Cropland", L1 |-> "Cereals", L2 |-> "Wheat", L3 |-> "Spring Wheat"]>>,
       <<"6", [name |-> "Spring barley", color |-> "#00c0ff",
              L0 |-> "Cropland", L1 |-> "Cereals", L2 |-> "Barley", L3 |-> "Spring Barley"]>>,
       <<"7", [name |-> "Spring oats", color |-> "#00e0ff",
              L0 |-> "Cropland", L1 |-> "Cereals", L2 |-> "Oats", L3 |-> "Spring Oats"]>>,
       <<"8", [name |-> "Maize", color |-> "#ffff00",
              L0 |-> "Cropland", L1 |-> "Cereals", L2 |-> "Maize"]>>,
       <<"9", [name |-> "Beans-lupins-peas", color |-> "#ff8000",
              L0 |-> "Cropland", L1 |-> "Legumes"]>>,
       <<"10", [name |-> "Potatoes", color |-> "#804000",
              L0 |-> "Cropland", L1 |-> "Root Crops", L2 |-> "Potato"]>>,
       <<"11", [name |-> "Sugar beet", color |-> "#ff0080",
              L0 |-> "Cropland", L1 |-> "Root Crops", L2 |-> "Sugar Beet"]>>,
       <<"12", [name |-> "Rapeseed", color |-> "#c0ff00",
              L0 |-> "Cropland", L1 |-> "Oilseeds", L2 |-> "Rapeseed"]>>,
       <<"13", [name |-> "Clover", color |-> "#00c000",
              L0 |-> "Cropland", L1 |-> "Legumes", L2 |-> "Clover"]>>,
       <<"14", [name |-> "Arable grass", color |-> "#80ff00", L0 |-> "Grassland"]>>,
       <<"15", [name |-> "Permanent grass", color |-> "#00ff00", L0 |-> "Grassland"]>>,
       <<"16", [name |-> "Vineyards", color |-> "#800080", L0 |-> "Cropland", L1 |-> "Vineyards"]>>,
       <<"17", [name |-> "Fruit trees", color |-> "#ff0000",
              L0 |-> "Cropland", L1 |-> "Fruits/Orchards"]>>,
       <<"18", [name |-> "Hops", color |-> "#008080",
              L0 |-> "Cropland", L1 |-> "Industrial Crops"]>>,
       <<"19", [name |-> "Other agricultural use", color |-> "#808080",
              L0 |-> "Cropland", L1 |-> "Mixed/Other Crops"]>>
     >>]>>,
  <<"usda-cdl",
    [meta |-> [label |-> "USDA Cropland Data Layer", country |-> "USA",
               resolution |-> "30m (Landsat + Sentinel)", type |-> "raster"],
     classes |-> <<
       <<"1", [name |-> "Corn", color |-> "#ffd300",
              L0 |-> "Cropland", L1 |-> "Cereals", L2 |-> "Maize"]>>,
       <<"2", [name |-> "Cotton", color |-> "#ff2626",
              L0 |-> "Cropland", L1 |-> "Industrial Crops"]>>,
       <<"3", [name |-> "Rice", color |-> "#00a8e5",
              L0 |-> "Cropland", L1 |-> "Cereals", L2 |-> "Rice"]>>,
       <<"4", [name |-> "Sorghum", color |-> "#ff9e0a",
              L0 |-> "Cropland", L1 |-> "Cereals", L2 |-> "Sorghum"]>>,
       <<"5", [name |-> "Soybeans", color |-> "#267000",
              L0 |-> "Cropland", L1 |-> "Legumes", L2 |-> "Beans"]>>,
       <<"6", [name |-> "Sunflower", color |-> "#ffff00",
              L0 |-> "Cropland", L1 |-> "Oilseeds", L2 |-> "Sunflower"]>>,
       <<"10", [name |-> "Peanuts", color |-> "#70a800", L0 |-> "Cropland", L1 |-> "Legumes"]>>,
       <<"11", [name |-> "Tobacco", color |-> "#00af49",
              L0 |-> "Cropland", L1 |-> "Industrial Crops"]>>,
       <<"12", [name |-> "Sweet Corn", color |-> "#dda50a",
              L0 |-> "Cropland", L1 |-> "Cereals", L2 |-> "Maize"]>>,
       <<"13", [name |-> "Pop or Orn Corn", color |-> "#dda50a",
              L0 |-> "Cropland", L1 |-> "Cereals", L2 |-> "Maize"]>>,
       <<"21", [name |-> "Barley", color |-> "#e2007c",
              L0 |-> "Cropland", L1 |-> "Cereals", L2 |-> "Barley"]>>,
       <<"22", [name |-> "Durum Wheat", color |-> "#896054",
              L0 |-> "Cropland", L1 |-> "Cereals", L2 |-> "Wheat", L3 |-> "Durum Wheat"]>>,
       <<"23", [name |-> "Spring Wheat", color |-> "#d8b56b",
              L0 |-> "Cropland", L1 |-> "Cereals", L2 |-> "Wheat", L3 |-> "Spring Wheat"]>>,
       <<"24", [name |-> "Winter Wheat", color |-> "#a57000",
              L0 |-> "Cropland", L1 |-> "Cereals", L2 |-> "Wheat", L3 |-> "Winter Wheat"]>>,
       <<"25", [name |-> "Other Small Grains", color |-> "#d69ebc",
              L0 |-> "Cropland", L1 |-> "Cereals"]>>,
       <<"26", [name |-> "Dbl Crop WinWht/Soybeans", color |-> "#707000",
              L0 |-> "Cropland", L1 |-> "Cereals", L2 |-> "Wheat"]>>,
       <<"27", [name |-> "Rye", color |-> "#ac007c",
              L0 |-> "Cropland", L1 |-> "Cereals", L2 |-> "Rye"]>>,
       <<"28", [name |-> "Oats", color |-> "#a05989",
              L0 |-> "Cropland", L1 |-> "Cereals", L2 |-> "Oats"]>>,
       <<"29", [name |-> "Millet", color |-> "#d6a0d6",
              L0 |-> "Cropland", L1 |-> "Cereals", L2 |-> "Millet"]>>,
       <<"30", [name |-> "Speltz", color |-> "#d1ff00",
              L0 |-> "Cropland", L1 |-> "Cereals", L2 |-> "Spelt"]>>,
       <<"31", [name |-> "Canola", color |-> "#e5007c",
              L0 |-> "Cropland", L1 |-> "Oilseeds", L2 |-> "Rapeseed"]>>,
       <<"32", [name |-> "Flaxseed", color |-> "#b29b70",
              L0 |-> "Cropland", L1 |-> "Oilseeds", L2 |-> "Flax/Linseed"]>>,
       <<"33", [name |-> "Safflower", color |-> "#f5ba9f", L0 |-> "Cropland", L1 |-> "Oilseeds"]>>,
       <<"34", [name |-> "Rape Seed", color |-> "#d6d600",
              L0 |-> "Cropland", L1 |-> "Oilseeds", L2 |-> "Rapeseed"]>>,
       <<"35", [name |-> "Mustard", color |-> "#d1ff00",
              L0 |-> "Cropland", L1 |-> "Oilseeds", L2 |-> "Mustard"]>>,
       <<"36", [name |-> "Alfalfa", color |-> "#ff9e0a",
              L0 |-> "Cropland", L1 |-> "Legumes", L2 |-> "Lucerne"]>>,
       <<"37", [name |-> "Other Hay/Non Alfalfa", color |-> "#a5f28c", L0 |-> "Grassland"]>>,
       <<"42", [name |-> "Dry Beans", color |-> "#a800e5",
              L0 |-> "Cropland", L1 |-> "Legumes", L2 |-> "Beans"]>>,
       <<"43", [name |-> "Potatoes", color |-> "#a50000",
              L0 |-> "Cropland", L1 |-> "Root Crops", L2 |-> "Potato"]>>,
       <<"44", [name |-> "Other Crops", color |-> "#702600",
              L0 |-> "Cropland", L1 |-> "Mixed/Other Crops"]>>,
       <<"45", [name |-> "Sugarcane", color |-> "#00af49",
              L0 |-> "Cropland", L1 |-> "Industrial Crops"]>>,
       <<"46", [name |-> "Sweet Potatoes", color |-> "#af7000",
              L0 |-> "Cropland", L1 |-> "Root Crops", L2 |-> "Potato"]>>,
       <<"47", [name |-> "Misc Vegs & Fruits", color |-> "#b5704c",
              L0 |-> "Cropland", L1 |-> "Vegetables"]>>,
       <<"48", [name |-> "Watermelons", color |-> "#ff2626",
              L0 |-> "Cropland", L1 |-> "Vegetables"]>>,
       <<"49", [name |-> "Onions", color |-> "#ff9e0a",
              L0 |-> "Cropland", L1 |-> "Vegetables", L2 |-> "Onion"]>>,
       <<"50", [name |-> "Cucumbers", color |-> "#267000",
              L0 |-> "Cropland", L1 |-> "Vegetables"]>>,
       <<"51", [name |-> "Chick Peas", color |-> "#f5ba9f",
              L0 |-> "Cropland", L1 |-> "Legumes", L2 |-> "Chickpea"]>>,
       <<"52", [name |-> "Lentils", color |-> "#b29b70",
              L0 |-> "Cropland", L1 |-> "Legumes", L2 |-> "Lentils"]>>,
       <<"53", [name |-> "Peas", color |-> "#00af49",
              L0 |-> "Cropland", L1 |-> "Legumes", L2 |-> "Peas"]>>,
       <<"54", [name |-> "Tomatoes", color |-> "#ff2626",
              L0 |-> "Cropland", L1 |-> "Vegetables", L2 |-> "Tomato"]>>,
       <<"55", [name |-> "Cranberries", color |-> "#e80000",
              L0 |-> "Cropland", L1 |-> "Fruits/Orchards", L2 |-> "Berry"]>>,
       <<"56", [name |-> "Hops", color |-> "#b2dda5",
              L0 |-> "Cropland", L1 |-> "Industrial Crops"]>>,
       <<"57", [name |-> "Herbs", color |-> "#00af49",
              L0 |-> "Cropland", L1 |-> "Industrial Crops"]>>,
       <<"58", [name |-> "Clover/Wildflowers", color |-> "#7cd3ff", L0 |-> "Grassland"]>>,
       <<"59", [name |-> "Sod/Grass Seed", color |-> "#e8bfff", L0 |-> "Grassland"]>>,
       <<"60", [name |-> "Switchgrass", color |-> "#afffdd", L0 |-> "Grassland"]>>,
       <<"61", [name |-> "Fallow/Idle Cropland", color |-> "#bfbf77", L0 |-> "Fallow"]>>,
       <<"63", [name |-> "Forest", color |-> "#93cc93", L0 |-> "Forest"]>>,
       <<"64", [name |-> "Shrubland", color |-> "#c6d69e", L0 |-> "Shrubland"]>>,
       <<"65", [name |-> "Barren", color |-> "#ccbfa3", L0 |-> "Bare"]>>,
       <<"66", [name |-> "Cherries", color |-> "#ff00ff",
              L0 |-> "Cropland", L1 |-> "Fruits/Orchards", L2 |-> "Cherry"]>>,
       <<"67", [name |-> "Peaches", color |-> "#ff8eaa",
              L0 |-> "Cropland", L1 |-> "Fruits/Orchards"]>>,
       <<"68", [name |-> "Apples", color |-> "#ba004f",
              L0 |-> "Cropland", L1 |-> "Fruits/Orchards", L2 |-> "Apple"]>>,
       <<"69", [name |-> "Grapes", color |-> "#704489", L0 |-> "Cropland", L1 |-> "Vineyards"]>>,
       <<"72", [name |-> "Citrus", color |-> "#007777",
              L0 |-> "Cropland", L1 |-> "Fruits/Orchards"]>>,
       <<"74", [name |-> "Pecans", color |-> "#b5b55e",
              L0 |-> "Cropland", L1 |-> "Fruits/Orchards"]>>,
       <<"75", [name |-> "Almonds", color |-> "#ff6666",
              L0 |-> "Cropland", L1 |-> "Fruits/Orchards"]>>,
       <<"76", [name |-> "Walnuts", color |-> "#ff6666",
              L0 |-> "Cropland", L1 |-> "Fruits/Orchards"]>>,
       <<"77", [name |-> "Pears", color |-> "#ffcc66",
              L0 |-> "Cropland", L1 |-> "Fruits/Orchards", L2 |-> "Pear"]>>,
       <<"81", [name |-> "Clouds/No Data", color |-> "#d7d7d7", L0 |-> "Unknown"]>>,
       <<"82", [name |-> "Developed", color |-> "#d1d1d1", L0 |-> "Urban"]>>,
       <<"83", [name |-> "Water", color |-> "#4970a3", L0 |-> "Water"]>>,
       <<"87", [name |-> "Wetlands", color |-> "#7cafaf", L0 |-> "Wetland"]>>,
       <<"88", [name |-> "Nonag/Undefined", color |-> "#e8ffbf", L0 |-> "Unknown"]>>,
       <<"92", [name |-> "Aquaculture", color |-> "#00ffff", L0 |-> "Water"]>>,
       <<"111", [name |-> "Open Water", color |-> "#4970a3", L0 |-> "Water"]>>,
       <<"112", [name |-> "Perennial Ice/Snow", color |-> "#d3e2f9", L0 |-> "Snow/Ice"]>>,
       <<"121", [name |-> "Developed/Open Space", color |-> "#999999", L0 |-> "Urban"]>>,
       <<"122", [name |-> "Developed/Low Intensity", color |-> "#999999", L0 |-> "Urban"]>>,
       <<"123", [name |-> "Developed/Med Intensity", color |-> "#999999", L0 |-> "Urban"]>>,
       <<"124", [name |-> "Developed/High Intensity", color |-> "#999999", L0 |-> "Urban"]>>,
       <<"131", [name |-> "Barren", color |-> "#ccbfa3", L0 |-> "Bare"]>>,
       <<"141", [name |-> "Deciduous Forest", color |-> "#93cc93", L0 |-> "Forest"]>>,
       <<"142", [name |-> "Evergreen Forest", color |-> "#006600", L0 |-> "Forest"]>>,
       <<"143", [name |-> "Mixed Forest", color |-> "#00cc00", L0 |-> "Forest"]>>,
       <<"152", [name |-> "Shrubland", color |-> "#c6d69e", L0 |-> "Shrubland"]>>,
       <<"176", [name |-> "Grass/Pasture", color |-> "#e8ffbf", L0 |-> "Grassland"]>>,
       <<"190", [name |-> "Woody Wetlands", color |-> "#7cafaf", L0 |-> "Wetland"]>>,
       <<"195", [name |-> "Herbaceous Wetlands", color |-> "#7cafaf", L0 |-> "Wetland"]>>,
       <<"204", [name |-> "Pistachios", color |-> "#b5b55e",
              L0 |-> "Cropland", L1 |-> "Fruits/Orchards"]>>,
       <<"205", [name |-> "Triticale", color |-> "#00ff8c",
              L0 |-> "Cropland", L1 |-> "Cereals", L2 |-> "Triticale"]>>,
       <<"206", [name |-> "Carrots", color |-> "#d69ebc",
              L0 |-> "Cropland", L1 |-> "Root Crops", L2 |-> "Carrot"]>>,
       <<"207", [name |-> "Asparagus", color |-> "#00af49",
              L0 |-> "Cropland", L1 |-> "Vegetables"]>>,
       <<"208", [name |-> "Garlic", color |-> "#ffd300", L0 |-> "Cropland", L1 |-> "Vegetables"]>>,
       <<"209", [name |-> "Cantaloupes", color |-> "#ffd300",
              L0 |-> "Cropland", L1 |-> "Vegetables"]>>,
       <<"210", [name |-> "Prunes", color |-> "#ff6666",
              L0 |-> "Cropland", L1 |-> "Fruits/Orchards"]>>,
       <<"211", [name |-> "Olives", color |-> "#005700",
              L0 |-> "Cropland", L1 |-> "Fruits/Orchards"]>>,
       <<"212", [name |-> "Oranges", color |-> "#ff6800",
              L0 |-> "Cropland", L1 |-> "Fruits/Orchards"]>>,
       <<"214", [name |-> "Broccoli", color |-> "#267000",
              L0 |-> "Cropland", L1 |-> "Vegetables"]>>,
       <<"216", [name |-> "Peppers", color |-> "#ff0000", L0 |-> "Cropland", L1 |-> "Vegetables"]>>,
       <<"217", [name |-> "Pomegranates", color |-> "#b5004c",
              L0 |-> "Cropland", L1 |-> "Fruits/Orchards"]>>,
       <<"219", [name |-> "Lettuce", color |-> "#ff9e0a",
              L0 |-> "Cropland", L1 |-> "Vegetables", L2 |-> "Lettuce"]>>,
       <<"221", [name |-> "Strawberries", color |-> "#ff2626",
              L0 |-> "Cropland", L1 |-> "Fruits/Orchards", L2 |-> "Strawberry"]>>,
       <<"222", [name |-> "Squash", color |-> "#ffff7c", L0 |-> "Cropland", L1 |-> "Vegetables"]>>,
       <<"224", [name |-> "Vetch", color |-> "#267000", L0 |-> "Cropland", L1 |-> "Legumes"]>>,
       <<"225", [name |-> "Dbl Crop WinWht/Corn", color |-> "#c77c54",
              L0 |-> "Cropland", L1 |-> "Cereals"]>>,
       <<"227", [name |-> "Lettuce", color |-> "#ff9e0a",
              L0 |-> "Cropland", L1 |-> "Vegetables", L2 |-> "Lettuce"]>>,
       <<"229", [name |-> "Pumpkins", color |-> "#ff6800",
              L0 |-> "Cropland", L1 |-> "Vegetables"]>>,
       <<"242", [name |-> "Blueberries", color |-> "#000099",
              L0 |-> "Cropland", L1 |-> "Fruits/Orchards", L2 |-> "Berry"]>>,
       <<"243", [name |-> "Cabbage", color |-> "#93cc93",
              L0 |-> "Cropland", L1 |-> "Vegetables", L2 |-> "Cabbage"]>>,
       <<"244", [name |-> "Cauliflower", color |-> "#c6d69e",
              L0 |-> "Cropland", L1 |-> "Vegetables"]>>,
       <<"245", [name |-> "Celery", color |-> "#e8ffbf", L0 |-> "Cropland", L1 |-> "Vegetables"]>>,
       <<"246", [name |-> "Radishes", color |-> "#7cafaf",
              L0 |-> "Cropland", L1 |-> "Root Crops"]>>,
       <<"247", [name |-> "Turnips", color |-> "#d3e2f9",
              L0 |-> "Cropland", L1 |-> "Root Crops", L2 |-> "Turnip"]>>,
       <<"248", [name |-> "Eggplants", color |-> "#999999",
              L0 |-> "Cropland", L1 |-> "Vegetables"]>>,
       <<"250", [name |-> "Cranberries", color |-> "#e80000",
              L0 |-> "Cropland", L1 |-> "Fruits/Orchards", L2 |-> "Berry"]>>
     >>]>>,
  <<"canada",
    [meta |-> [label |-> "Canada AAFC Annual Crop Inventory", country |-> "Canada",
               resolution |-> "30m (Landsat/Sentinel)", type |-> "raster"],
     classes |-> <<
       <<"20", [name |-> "Water", color |-> "#3333ff", L0 |-> "Water"]>>,
       <<"30", [name |-> "Exposed Land", color |-> "#996666", L0 |-> "Bare"]>>,
       <<"34", [name |-> "Urban", color |-> "#cc6699", L0 |-> "Urban"]>>,
       <<"35", [name |-> "Greenhouses", color |-> "#e1e1e1",
              L0 |-> "Cropland", L1 |-> "Vegetables"]>>,
       <<"50", [name |-> "Shrubland", color |-> "#ffff00", L0 |-> "Shrubland"]>>,
       <<"80", [name |-> "Wetland", color |-> "#993399", L0 |-> "Wetland"]>>,
       <<"110", [name |-> "Grassland", color |-> "#cccc00", L0 |-> "Grassland"]>>,
       <<"120", [name |-> "Agriculture (undiff.)", color |-> "#cc6600", L0 |-> "Cropland"]>>,
       <<"122", [name |-> "Pasture and Forages", color |-> "#ffcc33", L0 |-> "Grassland"]>>,
       <<"130", [name |-> "Too Wet to Seed", color |-> "#7899f6", L0 |-> "Wetland"]>>,
       <<"131", [name |-> "Fallow", color |-> "#ff9900", L0 |-> "Fallow"]>>,
       <<"133", [name |-> "Barley", color |-> "#dae31d",
              L0 |-> "Cropland", L1 |-> "Cereals", L2 |-> "Barley"]>>,
       <<"136", [name |-> "Oats", color |-> "#d1d52b",
              L0 |-> "Cropland", L1 |-> "Cereals", L2 |-> "Oats"]>>,
       <<"137", [name |-> "Rye", color |-> "#cacd32",
              L0 |-> "Cropland", L1 |-> "Cereals", L2 |-> "Rye"]>>,
       <<"139", [name |-> "Triticale", color |-> "#b9bc44",
              L0 |-> "Cropland", L1 |-> "Cereals", L2 |-> "Triticale"]>>,
       <<"140", [name |-> "Wheat", color |-> "#a7b34d",
              L0 |-> "Cropland", L1 |-> "Cereals", L2 |-> "Wheat"]>>,
       <<"145", [name |-> "Winter Wheat", color |-> "#809769",
              L0 |-> "Cropland", L1 |-> "Cereals", L2 |-> "Wheat", L3 |-> "Winter Wheat"]>>,
       <<"146", [name |-> "Spring Wheat", color |-> "#92a55b",
              L0 |-> "Cropland", L1 |-> "Cereals", L2 |-> "Wheat", L3 |-> "Spring Wheat"]>>,
       <<"147", [name |-> "Corn", color |-> "#ffff99",
              L0 |-> "Cropland", L1 |-> "Cereals", L2 |-> "Maize"]>>,
       <<"153", [name |-> "Canola/Rapeseed", color |-> "#d6ff70",
              L0 |-> "Cropland", L1 |-> "Oilseeds", L2 |-> "Rapeseed"]>>,
       <<"154", [name |-> "Flaxseed", color |-> "#8c8cff",
              L0 |-> "Cropland", L1 |-> "Oilseeds", L2 |-> "Flax/Linseed"]>>,
       <<"155", [name |-> "Mustard", color |-> "#d6cc00",
              L0 |-> "Cropland", L1 |-> "Oilseeds", L2 |-> "Mustard"]>>,
       <<"157", [name |-> "Sunflower", color |-> "#315491",
              L0 |-> "Cropland", L1 |-> "Oilseeds", L2 |-> "Sunflower"]>>,
       <<"158", [name |-> "Soybeans", color |-> "#cc9933",
              L0 |-> "Cropland", L1 |-> "Legumes", L2 |-> "Beans"]>>,
       <<"162", [name |-> "Peas", color |-> "#8f6c3d",
              L0 |-> "Cropland", L1 |-> "Legumes", L2 |-> "Peas"]>>,
       <<"167", [name |-> "Beans", color |-> "#82654a",
              L0 |-> "Cropland", L1 |-> "Legumes", L2 |-> "Beans"]>>,
       <<"174", [name |-> "Lentils", color |-> "#b85900",
              L0 |-> "Cropland", L1 |-> "Legumes", L2 |-> "Lentils"]>>,
       <<"177", [name |-> "Potatoes", color |-> "#ffcccc",
              L0 |-> "Cropland", L1 |-> "Root Crops", L2 |-> "Potato"]>>,
       <<"178", [name |-> "Sugarbeets", color |-> "#6f55ca",
              L0 |-> "Cropland", L1 |-> "Root Crops", L2 |-> "Sugar Beet"]>>,
       <<"188", [name |-> "Orchards", color |-> "#ff6666",
              L0 |-> "Cropland", L1 |-> "Fruits/Orchards"]>>,
       <<"190", [name |-> "Vineyards", color |-> "#7442bd",
              L0 |-> "Cropland", L1 |-> "Vineyards"]>>,
       <<"193", [name |-> "Herbs", color |-> "#ccff05",
              L0 |-> "Cropland", L1 |-> "Industrial Crops"]>>,
       <<"194", [name |-> "Nursery", color |-> "#07f98c", L0 |-> "Cropland", L1 |-> "Nursery"]>>,
       <<"195", [name |-> "Buckwheat", color |-> "#00ffcc", L0 |-> "Cropland", L1 |-> "Cereals"]>>,
       <<"197", [name |-> "Hemp", color |-> "#8e7672",
              L0 |-> "Cropland", L1 |-> "Industrial Crops", L2 |-> "Hemp"]>>,
       <<"200", [name |-> "Forest", color |-> "#009900", L0 |-> "Forest"]>>,
       <<"210", [name |-> "Coniferous", color |-> "#006600", L0 |-> "Forest"]>>,
       <<"220", [name |-> "Broadleaf", color |-> "#00cc00", L0 |-> "Forest"]>>,
       <<"230", [name |-> "Mixedwood", color |-> "#cc9900", L0 |-> "Forest"]>>
     >>]>>,
  <<"esa-worldcover",
    [meta |-> [label |-> "ESA WorldCover", country |-> "Global",
               resolution |-> "10m (Sentinel-1/2)", type |-> "raster"],
     classes |-> <<
       <<"10", [name |-> "Tree cover", color |-> "#006400", L0 |-> "Forest"]>>,
       <<"20", [name |-> "Shrubland", color |-> "#ffbb22", L0 |-> "Shrubland"]>>,
       <<"30", [name |-> "Grassland", color |-> "#ffff4c", L0 |-> "Grassland"]>>,
       <<"40", [name |-> "Cropland", color |-> "#f096ff", L0 |-> "Cropland"]>>,
       <<"50", [name |-> "Built-up", color |-> "#fa0000", L0 |-> "Urban"]>>,
       <<"60", [name |-> "Bare / sparse vegetation", color |-> "#b4b4b4", L0 |-> "Bare"]>>,
       <<"70", [name |-> "Snow and ice", color |-> "#f0f0f0", L0 |-> "Snow/Ice"]>>,
       <<"80", [name |-> "Permanent water bodies", color |-> "#0064c8", L0 |-> "Water"]>>,
       <<"90", [name |-> "Herbaceous wetland", color |-> "#0096a0", L0 |-> "Wetland"]>>,
       <<"95", [name |-> "Mangroves", color |-> "#00cf75", L0 |-> "Forest"]>>,
       <<"100", [name |-> "Moss and lichen", color |-> "#fae6a0", L0 |-> "Bare"]>>
     >>]>>,
  <<"modis-landcover",
    [meta |-> [label |-> "MODIS Land Cover (IGBP)", country |-> "Global",
               resolution |-> "500m", type |-> "raster"],
     classes |-> <<
       <<"1", [name |-> "Evergreen Needleleaf Forests", color |-> "#05450a", L0 |-> "Forest"]>>,
       <<"2", [name |-> "Evergreen Broadleaf Forests", color |-> "#086a10", L0 |-> "Forest"]>>,
       <<"3", [name |-> "Deciduous Needleleaf Forests", color |-> "#54a708", L0 |-> "Forest"]>>,
       <<"4", [name |-> "Deciduous Broadleaf Forests", color |-> "#78d203", L0 |-> "Forest"]>>,
       <<"5", [name |-> "Mixed Forests", color |-> "#009900", L0 |-> "Forest"]>>,
       <<"6", [name |-> "Closed Shrublands", color |-> "#c6b044", L0 |-> "Shrubland"]>>,
       <<"7", [name |-> "Open Shrublands", color |-> "#dcd159", L0 |-> "Shrubland"]>>,
       <<"8", [name |-> "Woody Savannas", color |-> "#dade48", L0 |-> "Grassland"]>>,
       <<"9", [name |-> "Savannas", color |-> "#fbff13", L0 |-> "Grassland"]>>,
       <<"10", [name |-> "Grasslands", color |-> "#b6ff05", L0 |-> "Grassland"]>>,
       <<"11", [name |-> "Permanent Wetlands", color |-> "#27ff87", L0 |-> "Wetland"]>>,
       <<"12", [name |-> "Croplands", color |-> "#c24f44", L0 |-> "Cropland"]>>,
       <<"13", [name |-> "Urban and Built-up", color |-> "#a5a5a5", L0 |-> "Urban"]>>,
       <<"14", [name |-> "Cropland/Natural Vegetation Mosaics", color |-> "#ff6d4c",
              L0 |-> "Cropland"]>>,
       <<"15", [name |-> "Snow and Ice", color |-> "#f9ffa4", L0 |-> "Snow/Ice"]>>,
       <<"16", [name |-> "Barren", color |-> "#a5a5a5", L0 |-> "Bare"]>>,
       <<"17", [name |-> "Water Bodies", color |-> "#69fff8", L0 |-> "Water"]>>
     >>]>>,
  <<"australia",
    [meta |-> [label |-> "Australia Catchment Scale Land Use", country |-> "Australia",
               resolution |-> "~50m (catchment scale)", type |-> "raster"],
     classes |-> <<
       <<"1", [name |-> "Nature conservation", color |-> "#d090d0", L0 |-> "Forest"]>>,
       <<"2", [name |-> "Managed resource protection", color |-> "#8080ff", L0 |-> "Forest"]>>,
       <<"3", [name |-> "Other minimal use", color |-> "#c8c8c8", L0 |-> "Bare"]>>,
       <<"4", [name |-> "Grazing native vegetation", color |-> "#ffffff", L0 |-> "Grassland"]>>,
       <<"5", [name |-> "Production native forests", color |-> "#008050", L0 |-> "Forest"]>>,
       <<"6", [name |-> "Plantation forests", color |-> "#80ffc0", L0 |-> "Forest"]>>,
       <<"7", [name |-> "Grazing modified pastures", color |-> "#c0ff80", L0 |-> "Grassland"]>>,
       <<"8", [name |-> "Dryland cropping", color |-> "#ffff00", L0 |-> "Cropland"]>>,
       <<"9", [name |-> "Dryland horticulture", color |-> "#ffc800",
              L0 |-> "Cropland", L1 |-> "Fruits/Orchards"]>>,
       <<"10", [name |-> "Land in transition", color |-> "#ff9030", L0 |-> "Fallow"]>>,
       <<"11", [name |-> "Irrigated pastures", color |-> "#ff8000", L0 |-> "Grassland"]>>,
       <<"12", [name |-> "Irrigated cropping", color |-> "#ff0000", L0 |-> "Cropland"]>>,
       <<"13", [name |-> "Irrigated horticulture", color |-> "#c00000",
              L0 |-> "Cropland", L1 |-> "Fruits/Orchards"]>>,
       <<"14", [name |-> "Intensive horticulture and animal production", color |-> "#0000ff",
              L0 |-> "Cropland", L1 |-> "Vegetables"]>>,
       <<"15", [name |-> "Other intensive uses", color |-> "#6060a0", L0 |-> "Urban"]>>,
       <<"16", [name |-> "Urban residential", color |-> "#ff0080", L0 |-> "Urban"]>>,
       <<"17", [name |-> "Rural residential and farm infrastructure", color |-> "#ffa0c0",
              L0 |-> "Urban"]>>,
       <<"18", [name |-> "Mining and waste", color |-> "#808000", L0 |-> "Urban"]>>,
       <<"19", [name |-> "Water", color |-> "#0000c8", L0 |-> "Water"]>>
     >>]>>,
  <<"deafrica-crop",
    [meta |-> [label |-> "Africa Cropland Mask", country |-> "Africa",
               resolution |-> "10m (Sentinel-2)", type |-> "raster"],
     classes |-> <<
       <<"1", [name |-> "Cropped land", color |-> "#00ff00", L0 |-> "Cropland"]>>,
       <<"0", [name |-> "Not cropped", color |-> "#000000", L0 |-> "Unknown"]>>
     >>]>>,
  <<"gfsad-croplands",
    [meta |-> [label |-> "GFSAD Global Croplands", country |-> "Global",
               resolution |-> "1km", type |-> "raster"],
     classes |-> <<
       <<"1", [name |-> "Irrigated cropland", color |-> "#ff0000", L0 |-> "Cropland"]>>,
       <<"2", [name |-> "Rainfed cropland", color |-> "#00ff00", L0 |-> "Cropland"]>>,
       <<"0", [name |-> "Non-cropland", color |-> "#000000", L0 |-> "Unknown"]>>
     >>]>>,
  <<"worldcereal",
    [meta |-> [label |-> "WorldCereal Temporary Crops", country |-> "Global",
               resolution |-> "10m (Sentinel)", type |-> "raster"],
     classes |-> <<
       <<"0", [name |-> "Not temporary crop", color |-> "#000000", L0 |-> "Unknown"]>>,
       <<"1", [name |-> "Temporary crop", color |-> "#00ff00", L0 |-> "Cropland"]>>
     >>]>>,
  <<"worldcereal-maize",
    [meta |-> [label |-> "WorldCereal Maize", country |-> "Global",
               resolution |-> "10m (Sentinel)", type |-> "raster"],
     classes |-> <<
       <<"0", [name |-> "Not maize", color |-> "#000000", L0 |-> "Unknown"]>>,
       <<"1", [name |-> "Maize", color |-> "#f5c71a",
              L0 |-> "Cropland", L1 |-> "Cereals", L2 |-> "Maize"]>>
     >>]>>,
  <<"worldcereal-winter",
    [meta |-> [label |-> "WorldCereal Winter Cereals", country |-> "Global",
               resolution |-> "10m (Sentinel)", type |-> "raster"],
     classes |-> <<
       <<"0", [name |-> "Not winter cereal", color |-> "#000000", L0 |-> "Unknown"]>>,
       <<"1", [name |-> "Winter cereal", color |-> "#d4a017", L0 |-> "Cropland", L1 |-> "Cereals"]>>
     >>]>>,
  <<"worldcereal-spring",
    [meta |-> [label |-> "WorldCereal Spring Cereals", country |-> "Global",
               resolution |-> "10m (Sentinel)", type |-> "raster"],
     classes |-> <<
       <<"0", [name |-> "Not spring cereal", color |-> "#000000", L0 |-> "Unknown"]>>,
       <<"1", [name |-> "Spring cereal", color |-> "#e6b800", L0 |-> "Cropland", L1 |-> "Cereals"]>>
     >>]>>,
  <<"newzealand",
    [meta |-> [label |-> "New Zealand LCDB v6", country |-> "New Zealand",
               resolution |-> "~15m (Landsat)", type |-> "raster"],
     classes |-> <<
       <<"1", [name |-> "Built-up Area (Settlement)", color |-> "#ff0000", L0 |-> "Urban"]>>,
       <<"2", [name |-> "Urban Parkland/Open Space", color |-> "#cc9966", L0 |-> "Urban"]>>,
       <<"5", [name |-> "Transport Infrastructure", color |-> "#808080", L0 |-> "Urban"]>>,
       <<"6", [name |-> "Surface Mine or Dump", color |-> "#996633", L0 |-> "Bare"]>>,
       <<"10", [name |-> "Sand or Gravel", color |-> "#ffcc99", L0 |-> "Bare"]>>,
       <<"12", [name |-> "Landslide", color |-> "#cc6600", L0 |-> "Bare"]>>,
       <<"14", [name |-> "Permanent Snow and Ice", color |-> "#ffffff", L0 |-> "Snow/Ice"]>>,
       <<"15", [name |-> "Alpine Grass/Herbfield", color |-> "#ccff66", L0 |-> "Grassland"]>>,
       <<"16", [name |-> "Gravel or Rock", color |-> "#cccccc", L0 |-> "Bare"]>>,
       <<"20", [name |-> "Lake or Pond", color |-> "#0066ff", L0 |-> "Water"]>>,
       <<"21", [name |-> "River", color |-> "#0099ff", L0 |-> "Water"]>>,
       <<"22", [name |-> "Estuarine Open Water", color |-> "#00ccff", L0 |-> "Water"]>>,
       <<"30", [name |-> "Short-rotation Cropland", color |-> "#ffff00", L0 |-> "Cropland"]>>,
       <<"33", [name |-> "Orchard, Vineyard or Other Perennial Crop", color |-> "#ff9900",
              L0 |-> "Cropland", L1 |-> "Fruits/Orchards"]>>,
       <<"40", [name |-> "High Producing Exotic Grassland", color |-> "#66ff00",
              L0 |-> "Grassland"]>>,
       <<"41", [name |-> "Low Producing Grassland", color |-> "#99ff66", L0 |-> "Grassland"]>>,
       <<"43", [name |-> "Tall Tussock Grassland", color |-> "#ccff99", L0 |-> "Grassland"]>>,
       <<"44", [name |-> "Depleted Grassland", color |-> "#ffffcc", L0 |-> "Grassland"]>>,
       <<"45", [name |-> "Herbaceous Freshwater Vegetation", color |-> "#66cccc",
              L0 |-> "Wetland"]>>,
       <<"46", [name |-> "Herbaceous Saline Vegetation", color |-> "#339999", L0 |-> "Wetland"]>>,
       <<"47", [name |-> "Flaxland", color |-> "#339966", L0 |-> "Wetland"]>>,
       <<"50", [name |-> "Fernland", color |-> "#99cc00", L0 |-> "Shrubland"]>>,
       <<"51", [name |-> "Gorse and/or Broom", color |-> "#cc9900", L0 |-> "Shrubland"]>>,
       <<"52", [name |-> "Manuka and/or Kanuka", color |-> "#669933", L0 |-> "Shrubland"]>>,
       <<"54", [name |-> "Broadleaved Indigenous Hardwoods", color |-> "#006600",
              L0 |-> "Forest"]>>,
       <<"55", [name |-> "Sub Alpine Shrubland", color |-> "#99cc66", L0 |-> "Shrubland"]>>,
       <<"56", [name |-> "Mixed Exotic Shrubland", color |-> "#cccc00", L0 |-> "Shrubland"]>>,
       <<"58", [name |-> "Matagouri or Grey Scrub", color |-> "#999966", L0 |-> "Shrubland"]>>,
       <<"64", [name |-> "Forest - Harvested", color |-> "#cc6699", L0 |-> "Forest"]>>,
       <<"68", [name |-> "Deciduous Hardwoods", color |-> "#33cc33", L0 |-> "Forest"]>>,
       <<"69", [name |-> "Indigenous Forest", color |-> "#003300", L0 |-> "Forest"]>>,
       <<"70", [name |-> "Mangrove", color |-> "#336633", L0 |-> "Forest"]>>,
       <<"71", [name |-> "Exotic Forest", color |-> "#009933", L0 |-> "Forest"]>>
     >>]>>,
  <<"argentina",
    [meta |-> [label |-> "Argentina GeoINTA Crop Map", country |-> "Argentina",
               resolution |-> "~30m", type |-> "raster"],
     classes |-> <<
       <<"note", [name |-> "Raster classification - classes vary by season/product", color |-> "#808080",
              L0 |-> "Cropland"]>>
     >>]>>,
  <<"dea-landcover",
    [meta |-> [label |-> "Digital Earth Australia Land Cover", country |-> "Australia",
               resolution |-> "25m (Landsat)", type |-> "raster"],
     classes |-> <<
       <<"111", [name |-> "Cultivated Terrestrial Vegetation", color |-> "#ffff00",
              L0 |-> "Cropland"]>>,
       <<"112", [name |-> "Natural Terrestrial Vegetation", color |-> "#009900", L0 |-> "Forest"]>>,
       <<"124", [name |-> "Natural Aquatic Vegetation", color |-> "#00cccc", L0 |-> "Wetland"]>>,
       <<"215", [name |-> "Artificial Surface", color |-> "#ff0000", L0 |-> "Urban"]>>,
       <<"216", [name |-> "Natural Bare Surface", color |-> "#cc9966", L0 |-> "Bare"]>>,
       <<"220", [name |-> "Water", color |-> "#0000ff", L0 |-> "Water"]>>
     >>]>>,
  <<"eurocrops",
    [meta |-> [label |-> "EuroCrops (EU Field Boundaries)", country |-> "EU",
               resolution |-> "Vector (parcel-level)", type |-> "vector"],
     classes |-> <<
       <<"winter_common_soft_wheat", [name |-> "Winter Common/Soft Wheat", color |-> "#d4a017",
              L0 |-> "Cropland", L1 |-> "Cereals", L2 |-> "Wheat", L3 |-> "Winter Wheat"]>>,
       <<"spring_common_soft_wheat", [name |-> "Spring Common/Soft Wheat", color |-> "#e6b800",
              L0 |-> "Cropland", L1 |-> "Cereals", L2 |-> "Wheat", L3 |-> "Spring Wheat"]>>,
       <<"winter_durum_hard_wheat", [name |-> "Winter Durum/Hard Wheat", color |-> "#c9a830",
              L0 |-> "Cropland", L1 |-> "Cereals", L2 |-> "Wheat", L3 |-> "Durum Wheat"]>>,
       <<"winter_barley", [name |-> "Winter Barley", color |-> "#ccaa00",
              L0 |-> "Cropland", L1 |-> "Cereals", L2 |-> "Barley", L3 |-> "Winter Barley"]>>,
       <<"spring_barley", [name |-> "Spring Barley", color |-> "#e8c840",
              L0 |-> "Cropland", L1 |-> "Cereals", L2 |-> "Barley", L3 |-> "Spring Barley"]>>,
       <<"winter_rye", [name |-> "Winter Rye", color |-> "#b89830",
              L0 |-> "Cropland", L1 |-> "Cereals", L2 |-> "Rye", L3 |-> "Winter Rye"]>>,
       <<"winter_triticale", [name |-> "Winter Triticale", color |-> "#a89030",
              L0 |-> "Cropland", L1 |-> "Cereals", L2 |-> "Triticale", L3 |-> "Winter Triticale"]>>,
       <<"winter_oats", [name |-> "Winter Oats", color |-> "#c8a848",
              L0 |-> "Cropland", L1 |-> "Cereals", L2 |-> "Oats", L3 |-> "Winter Oats"]>>,
       <<"grain_maize_corn_popcorn", [name |-> "Grain Maize/Corn", color |-> "#f5c71a",
              L0 |-> "Cropland", L1 |-> "Cereals", L2 |-> "Maize"]>>,
       <<"green_silo_maize", [name |-> "Green/Silo Maize", color |-> "#e8b800",
              L0 |-> "Cropland", L1 |-> "Cereals", L2 |-> "Maize"]>>,
       <<"rice", [name |-> "Rice", color |-> "#fff8dc",
              L0 |-> "Cropland", L1 |-> "Cereals", L2 |-> "Rice"]>>,
       <<"spelt", [name |-> "Spelt", color |-> "#c0a030",
              L0 |-> "Cropland", L1 |-> "Cereals", L2 |-> "Spelt"]>>,
       <<"winter_rapeseed_rape", [name |-> "Winter Rapeseed", color |-> "#ffa500",
              L0 |-> "Cropland", L1 |-> "Oilseeds", L2 |-> "Rapeseed", L3 |-> "Winter Rapeseed"]>>,
       <<"sunflower", [name |-> "Sunflower", color |-> "#ffc107",
              L0 |-> "Cropland", L1 |-> "Oilseeds", L2 |-> "Sunflower"]>>,
       <<"flax_linen", [name |-> "Flax/Linen", color |-> "#e8d44d",
              L0 |-> "Cropland", L1 |-> "Oilseeds", L2 |-> "Flax/Linseed"]>>,
       <<"soy_soybeans", [name |-> "Soy/Soybeans", color |-> "#cdaa20",
              L0 |-> "Cropland", L1 |-> "Legumes", L2 |-> "Beans"]>>,
       <<"mustard", [name |-> "Mustard", color |-> "#eee8aa",
              L0 |-> "Cropland", L1 |-> "Oilseeds", L2 |-> "Mustard"]>>,
       <<"hemp_cannabis", [name |-> "Hemp/Cannabis", color |-> "#9acd32",
              L0 |-> "Cropland", L1 |-> "Industrial Crops", L2 |-> "Hemp"]>>,
       <<"beans", [name |-> "Beans", color |-> "#228b22",
              L0 |-> "Cropland", L1 |-> "Legumes", L2 |-> "Beans"]>>,
       <<"peas", [name |-> "Peas", color |-> "#00ff7f",
              L0 |-> "Cropland", L1 |-> "Legumes", L2 |-> "Peas"]>>,
       <<"lentils", [name |-> "Lentils", color |-> "#3cb371",
              L0 |-> "Cropland", L1 |-> "Legumes", L2 |-> "Lentils"]>>,
       <<"chickpeas", [name |-> "Chickpeas", color |-> "#556b2f",
              L0 |-> "Cropland", L1 |-> "Legumes", L2 |-> "Chickpea"]>>,
       <<"sweet_lupins", [name |-> "Sweet Lupins", color |-> "#00fa9a",
              L0 |-> "Cropland", L1 |-> "Legumes", L2 |-> "Lupin"]>>,
       <<"clover", [name |-> "Clover", color |-> "#00cd66",
              L0 |-> "Cropland", L1 |-> "Legumes", L2 |-> "Clover"]>>,
       <<"alfalfa_lucerne", [name |-> "Alfalfa/Lucerne", color |-> "#2e8b57",
              L0 |-> "Cropland", L1 |-> "Legumes", L2 |-> "Lucerne"]>>,
       <<"potatoes", [name |-> "Potatoes", color |-> "#cd853f",
              L0 |-> "Cropland", L1 |-> "Root Crops", L2 |-> "Potato"]>>,
       <<"sugar_beet", [name |-> "Sugar Beet", color |-> "#deb887",
              L0 |-> "Cropland", L1 |-> "Root Crops", L2 |-> "Sugar Beet"]>>,
       <<"carrots_daucus", [name |-> "Carrots", color |-> "#ff8c00",
              L0 |-> "Cropland", L1 |-> "Root Crops", L2 |-> "Carrot"]>>,
       <<"fresh_vegetables", [name |-> "Fresh Vegetables", color |-> "#ff6347",
              L0 |-> "Cropland", L1 |-> "Vegetables"]>>,
       <<"onions", [name |-> "Onions", color |-> "#daa520",
              L0 |-> "Cropland", L1 |-> "Vegetables", L2 |-> "Onion"]>>,
       <<"strawberries", [name |-> "Strawberries", color |-> "#ff4040",
              L0 |-> "Cropland", L1 |-> "Fruits/Orchards", L2 |-> "Strawberry"]>>,
       <<"orchards_fruits", [name |-> "Orchards/Fruits", color |-> "#9370db",
              L0 |-> "Cropland", L1 |-> "Fruits/Orchards"]>>,
       <<"vineyards_wine_vine_rebland_grapes", [name |-> "Vineyards", color |-> "#722f72",
              L0 |-> "Cropland", L1 |-> "Vineyards"]>>,
       <<"pasture_meadow_grassland_grass", [name |-> "Pasture/Meadow/Grassland", color |-> "#7cfc00",
              L0 |-> "Grassland"]>>,
       <<"temporary_grass", [name |-> "Temporary Grass", color |-> "#90ee90", L0 |-> "Grassland"]>>,
       <<"tree_wood_forest", [name |-> "Tree/Wood/Forest", color |-> "#2f4f4f", L0 |-> "Forest"]>>,
       <<"shrubberries_shrubs", [name |-> "Shrubs", color |-> "#4a7c59", L0 |-> "Shrubland"]>>,
       <<"flowers_ornamental_plants", [name |-> "Flowers/Ornamental", color |-> "#ff69b4",
              L0 |-> "Cropland", L1 |-> "Flowers"]>>,
       <<"fallow_land_not_crop", [name |-> "Fallow Land", color |-> "#d2b48c", L0 |-> "Fallow"]>>,
       <<"not_known_and_other", [name |-> "Unknown/Other", color |-> "#a9a9a9", L0 |-> "Unknown"]>>
     >>]>>
>>

\* Largest number of class entries in a registry of SpecShipped.
WindowLen == 3

\* The entries a to b of a source's classes, b cut to the last one.
Window(classes, a, b) == SubSeq(classes, a, IF b > Len(classes) THEN Len(classes) ELSE b)

\* The shipped hierarchy with one shipped source, cut to a run of up to
\* WindowLen consecutively registered entries; every shipped entry is in
\* some such registry.
InitShipped ==
  /\ \E i \in 1..Len(ShippedDatasets) : \E a \in 1..Len(ShippedDatasets[i][2].classes) :
       DATASETS = <<
         <<ShippedDatasets[i][1],
           [ShippedDatasets[i][2] EXCEPT !.classes = Window(@, a, a + WindowLen - 1)]>> >>
  /\ HIERARCHY = ShippedHierarchy
  /\ l2_cross_ref = <<>>
  /\ summary = <<>>
  /\ data = NoDocument
  /\ artifact = NoDocument
  /\ stdout = <<>>
  /\ resolved = <<>>
  /\ pc = "main"

\* Class entries the registries of SpecOrder are built from: resolved through
\* L2, through the L0 default, not at all, and by the entry's own duration.
OrderTemplates == <<Templates[1], Templates[4], Templates[6], Templates[7]>>

\* The mark of an entry the enrichment loop has not visited yet.
Pending == "<pending>"

\* A registry of at least one entry, none of them visited.
InitOrder ==
  /\ \E k \in 1..MaxEntries : \E s \in [1..k -> 1..Len(OrderTemplates)] :
       \E p1 \in 0..k : \E p2 \in p1..k :
         DATASETS = Registry(<<[i \in 1..p1 |-> OrderTemplates[s[i]]],
                               [i \in 1..(p2 - p1) |-> OrderTemplates[s[p1 + i]]],
                               [i \in 1..(k - p2) |-> OrderTemplates[s[p2 + i]]]>>)
  /\ resolved = [i \in 1..Len(DATASETS) |->
                   [j \in 1..Len(DATASETS[i][2].classes) |->
                      [cls |-> DATASETS[i][2].classes[j][2], dur |-> Pending]]]
  /\ HIERARCHY = ShippedHierarchy
  /\ l2_cross_ref = <<>>
  /\ summary = <<>>
  /\ data = NoDocument
  /\ artifact = NoDocument
  /\ stdout = <<>>
  /\ pc = "main"

\* build_output, lines 806-809: the body of the enrichment loop for the entry
\* j of source i, taken for the entries in any order; the loop ends with the
\* last entry not yet visited.
ResolveOne(i, j) ==
  /\ pc = "main"
  /\ resolved[i][j].dur = Pending
  /\ resolved' = [resolved EXCEPT ![i][j].dur = infer_duration(DATASETS[i][2].classes[j][2])]
  /\ DATASETS' = [DATASETS EXCEPT ![i][2].classes[j][2] = EnrichClass(@)]
  /\ pc' = IF \A a \in 1..Len(resolved) : \A b \in 1..Len(resolved[a]) :
                <<a, b>> = <<i, j>> \/ resolved[a][b].dur # Pending
             THEN "enriched" ELSE "main"
  /\ UNCHANGED <<HIERARCHY, l2_cross_ref, summary, data, artifact, stdout>>

ResolveAny ==
  \E i \in 1..Len(DATASETS) : \E j \in 1..Len(DATASETS[i][2].classes) : ResolveOne(i, j)

\* One run, its enrichment loop taken entry by entry.
NextOrder ==
  \/ ResolveAny
  \/ CrossReference
  \/ Summarise
  \/ Return
  \/ WriteArtifact
  \/ PrintReport

Next ==
  \/ Enrich
  \/ CrossReference
  \/ Summarise
  \/ Return
  \/ WriteArtifact
  \/ PrintReport
  \/ Rerun

Spec == Init /\ [][Next]_vars

SpecResolve == InitResolve /\ [][Next]_vars

SpecSummary == InitSummary /\ [][Next]_vars

SpecReport == InitReport /\ [][Next]_vars

SpecShipped == InitShipped /\ [][Next]_vars

SpecOrder == InitOrder /\ [][NextOrder]_vars

\* =====================================================================
\* Properties
\* =====================================================================
\* The positions of the entries: source i, entry j of that source.
Positions ==
  UNION {{<<i, j>> : j \in 1..Len(DATASETS[i][2].classes)} : i \in 1..Len(DATASETS)}

EntryAt(p) == DATASETS[p[1]][2].classes[p[2]][2]

\* The latest enrichment loop has run: resolved holds one record per entry.
Resolved == resolved # <<>>

ResolvedAt(p) == resolved[p[1]][p[2]]

\* The duration of the hierarchy node an entry names at a level, None when
\* the entry names none, the node is absent or the node has no duration.
NodeDuration(cls, level) ==
  IF level \in DOMAIN cls /\ level \in DOMAIN HIERARCHY
       /\ cls[level] \in DOMAIN HIERARCHY[level]
       /\ "duration" \in DOMAIN HIERARCHY[level][cls[level]]
    THEN HIERARCHY[level][cls[level]]["duration"]
    ELSE None

PerennialL0 == {"Grassland", "Forest", "Shrubland"}

UndefinedL0 == {"Water", "Urban", "Bare", "Snow/Ice", "Wetland", "Unknown", "Fallow"}

\* The value the fallback chain of the specification gives.
ChainValue(cls) ==
  IF "duration" \in DOMAIN cls THEN cls["duration"]
  ELSE IF NodeDuration(cls, "L2") # None THEN NodeDuration(cls, "L2")
  ELSE IF NodeDuration(cls, "L1") # None THEN NodeDuration(cls, "L1")
  ELSE IF "L0" \in DOMAIN cls /\ cls["L0"] \in PerennialL0 THEN "perennial"
  ELSE None

\* C1 - Override precedence: whenever infer_duration was given an entry that
\* carries a duration of its own, it returned exactly that value, whatever
\* the hierarchy holds for the entry's L2, L1 or L0.
C1_OverridePrecedence ==
  Resolved =>
    \A p \in Positions :
      "duration" \in DOMAIN ResolvedAt(p).cls
        => ResolvedAt(p).dur = ResolvedAt(p).cls["duration"]

\* An entry with duration "biennial" whose L2 node has duration "annual"
\* was resolved to "biennial".
C1_Witness ==
  /\ Resolved
  /\ \E p \in Positions :
       /\ "duration" \in DOMAIN ResolvedAt(p).cls
       /\ ResolvedAt(p).cls["duration"] = "biennial"
       /\ NodeDuration(ResolvedAt(p).cls, "L2") = "annual"
       /\ ResolvedAt(p).dur = "biennial"

\* C2 - L2 before L1: whenever infer_duration was given an entry without a
\* duration of its own whose L2 names a hierarchy node that has a duration,
\* it returned that node's duration, whatever the entry's L1 node holds.
C2_L2BeforeL1 ==
  Resolved =>
    \A p \in Positions :
      ("duration" \notin DOMAIN ResolvedAt(p).cls
         /\ NodeDuration(ResolvedAt(p).cls, "L2") # None)
        => ResolvedAt(p).dur = NodeDuration(ResolvedAt(p).cls, "L2")

\* L2 Clover (perennial) with L1 Legumes (annual) was resolved to "perennial".
C2_Witness ==
  /\ Resolved
  /\ \E p \in Positions :
       /\ "duration" \notin DOMAIN ResolvedAt(p).cls
       /\ DictGet(ResolvedAt(p).cls, "L2", None) = "Clover"
       /\ DictGet(ResolvedAt(p).cls, "L1", None) = "Legumes"
       /\ NodeDuration(ResolvedAt(p).cls, "L2") = "perennial"
       /\ NodeDuration(ResolvedAt(p).cls, "L1") = "annual"
       /\ ResolvedAt(p).dur = "perennial"

\* C3 - Non-crop default: whenever infer_duration was given an entry without
\* a duration of its own and with no duration obtainable from its L2 or L1,
\* it returned "perennial" for L0 Grassland, Forest and Shrubland and None
\* for L0 Water, Urban, Bare, Snow/Ice, Wetland, Unknown and Fallow.
C3_NonCropDefault ==
  Resolved =>
    \A p \in Positions :
      ("duration" \notin DOMAIN ResolvedAt(p).cls
         /\ NodeDuration(ResolvedAt(p).cls, "L2") = None
         /\ NodeDuration(ResolvedAt(p).cls, "L1") = None
         /\ "L0" \in DOMAIN ResolvedAt(p).cls)
        => /\ ResolvedAt(p).cls["L0"] \in PerennialL0 => ResolvedAt(p).dur = "perennial"
           /\ ResolvedAt(p).cls["L0"] \in UndefinedL0 => ResolvedAt(p).dur = None

\* A Shrubland entry whose L1 and L2 name no hierarchy node was resolved to
\* "perennial", under a hierarchy in which that L1 or L2 is simply unknown.
C3_Witness ==
  /\ Resolved
  /\ \E p \in Positions :
       /\ DOMAIN ResolvedAt(p).cls = {"name", "color", "L0", "L1", "L2"}
       /\ ResolvedAt(p).cls["L0"] = "Shrubland"
       /\ ResolvedAt(p).cls["L1"] = "Pulses"
       /\ ResolvedAt(p).cls["L2"] = "Ryegrass"
       /\ ResolvedAt(p).dur = "perennial"

\* C4 - Undefined is terminal: when the fallback chain yields no value for
\* the entry infer_duration was given, it returned None and the enrichment
\* loop left the entry as it was, without a duration field; and an entry
\* that carries a duration field after the loop carries the chain's value.
C4_UndefinedIsTerminal ==
  Resolved =>
    \A p \in Positions :
      /\ ChainValue(ResolvedAt(p).cls) = None
           => /\ ResolvedAt(p).dur = None
              /\ "duration" \notin DOMAIN EntryAt(p)
              /\ EntryAt(p) = ResolvedAt(p).cls
      /\ "duration" \in DOMAIN EntryAt(p)
           => EntryAt(p)["duration"] = ChainValue(ResolvedAt(p).cls)

\* A Cropland entry without L1 and L2 went through the loop, has no duration
\* field, and the run went on to write the document.
C4_Witness ==
  /\ pc = "done"
  /\ \E p \in Positions :
       /\ DOMAIN ResolvedAt(p).cls = {"name", "color", "L0"}
       /\ ResolvedAt(p).cls["L0"] = "Cropland"
       /\ ResolvedAt(p).dur = None
       /\ DOMAIN EntryAt(p) = {"name", "color", "L0"}

\* C5 - Idempotence: an enrichment loop that runs over a registry already
\* enriched changes no entry and gets from infer_duration, for every entry,
\* the value the previous loop got; and the build_output pass it starts
\* returns the document the previous pass returned.
C5_Idempotent ==
  [][/\ (pc = "main" /\ Resolved)
          => /\ DATASETS' = DATASETS
             /\ \A p \in Positions : resolved'[p[1]][p[2]].dur = ResolvedAt(p).dur
     /\ (pc = "summarised" /\ data # NoDocument) => data' = data]_vars

\* The second enrichment loop has run over a registry in which the first
\* one wrote an inferred duration.
C5_Witness ==
  /\ pc = "enriched"
  /\ artifact # NoDocument
  /\ \E p \in Positions :
       /\ artifact["datasets"][p[1]][2].classes[p[2]][2] = EntryAt(p)
       /\ ResolvedAt(p).cls = EntryAt(p)
       /\ NodeDuration(EntryAt(p), "L2") = "annual"
       /\ EntryAt(p)["duration"] = "annual"
       /\ ResolvedAt(p).dur = "annual"

\* ---------------------------------------------------------------------
\* The cross-reference and the summary
\* ---------------------------------------------------------------------
\* The cross-reference loop of the current pass has run.
Indexed == pc \in {"indexed", "summarised", "built", "written", "done"}

\* The summary loop of the current pass has run.
Summarised == pc \in {"summarised", "built", "written", "done"}

SourceIndexes == 1..Len(DATASETS)

\* The L2 names that occur anywhere: as a key of the index or on an entry.
L2Names ==
  KeySet(l2_cross_ref) \cup
  {EntryAt(p)["L2"] : p \in {q \in Positions : "L2" \in DOMAIN EntryAt(q)}}

\* What the index records under L2 name g for source id s.
Recorded(g, s) == OdGet(OdGet(l2_cross_ref, g, <<>>), s, <<>>)

\* The source ids the index holds under L2 name g.
RecordedSources(g) == KeySet(OdGet(l2_cross_ref, g, <<>>))

\* The {code, name, L3} records of the entries of source i whose L2 is g,
\* in the order the source registers them.
Occurrences(i, g) ==
  LET sel == SelectSeq(DATASETS[i][2].classes, LAMBDA e : DictGet(e[2], "L2", None) = g)
  IN [n \in 1..Len(sel) |->
        [code |-> sel[n][1], name |-> sel[n][2]["name"], L3 |-> DictGet(sel[n][2], "L3", None)]]

SourcesWith(g) ==
  {DATASETS[i][1] : i \in {k \in SourceIndexes : Occurrences(k, g) # <<>>}}

RECURSIVE SumCounts(_, _)
SumCounts(counts, n) == IF n = 0 THEN 0 ELSE counts[n][2] + SumCounts(counts, n - 1)

L0TallyComplete(i) ==
  LET dist == summary[i][2].L0_distribution IN
  /\ SumCounts(dist, Len(dist)) = Len(DATASETS[i][2].classes)
  /\ summary[i][2].total_classes = Len(DATASETS[i][2].classes)

\* C8 as stated - Unresolved L2 is excluded from the cross-reference: every
\* key of the index names a node of the hierarchy's L2 level, while every
\* entry is still counted in its source's L0 tally.
C8_UnresolvedL2Excluded ==
  /\ Indexed => KeySet(l2_cross_ref) \subseteq DOMAIN DictGet(HIERARCHY, "L2", EmptyDict)
  /\ Summarised => \A i \in SourceIndexes : L0TallyComplete(i)

\* C9 as stated - Unresolved L1 is excluded from the L1 tally: every key of
\* every L1_distribution names a node of the hierarchy's L1 level, while
\* every entry still adds 1 to the L0 tally and to total_classes.
C9_UnresolvedL1Excluded ==
  Summarised =>
    \A i \in SourceIndexes :
      /\ KeySet(summary[i][2].L1_distribution)
           \subseteq DOMAIN DictGet(HIERARCHY, "L1", EmptyDict)
      /\ L0TallyComplete(i)

\* ---------------------------------------------------------------------
\* The forest invariant of the hierarchy
\* ---------------------------------------------------------------------
EnclosingLevel == ("L1" :> "L0") @@ ("L2" :> "L1") @@ ("L3" :> "L2")

\* Some L1, L2 or L3 node declares a parent absent from the level above.
DanglingParent(H) ==
  \E level \in (DOMAIN EnclosingLevel) \cap (DOMAIN H) :
    \E n \in DOMAIN H[level] :
      /\ "parent" \in DOMAIN H[level][n]
      /\ H[level][n]["parent"] \notin DOMAIN DictGet(H, EnclosingLevel[level], EmptyDict)

\* C10 as stated - Schema violation is fatal: under a hierarchy with a
\* dangling parent the run stops before the enrichment loop, writes no
\* artifact and prints nothing.
C10_SchemaViolationFatal ==
  DanglingParent(HIERARCHY) =>
    /\ pc = "main"
    /\ ~Resolved
    /\ artifact = NoDocument
    /\ stdout = <<>>

\* ---------------------------------------------------------------------
\* The summary records
\* ---------------------------------------------------------------------
ClassesOf(i) == DATASETS[i][2].classes

\* The number of entries of source i that carry key and hold value k there.
Carrying(i, key, k) ==
  Len(SelectSeq(ClassesOf(i), LAMBDA e : key \in DOMAIN e[2] /\ e[2][key] = k))

\* The values the entries of source i hold under key.
ValuesOf(i, key) ==
  {ClassesOf(i)[j][2][key] : j \in {n \in 1..Len(ClassesOf(i)) : key \in DOMAIN ClassesOf(i)[n][2]}}

\* C11 - Summary totals: for every source, total_classes is the number of
\* its entries, the L0 tally holds under every l0 at least one unit for each
\* entry with that l0, and the values of the L0 tally sum to total_classes
\* (so every entry adds exactly 1, to one key, which is its l0).
C11_SummaryTotals ==
  Summarised =>
    \A i \in SourceIndexes :
      LET dist == summary[i][2].L0_distribution IN
      /\ summary[i][2].total_classes = Len(ClassesOf(i))
      /\ SumCounts(dist, Len(dist)) = summary[i][2].total_classes
      /\ \A k \in KeySet(dist) \cup ValuesOf(i, "L0") : OdGet(dist, k, 0) >= Carrying(i, "L0", k)

\* A source with two Cropland entries and one Grassland entry has
\* total_classes 3 and the L0 tally {Cropland: 2, Grassland: 1}.
C11_Witness ==
  /\ Summarised
  /\ \E i \in SourceIndexes :
       /\ summary[i][2].total_classes = 3
       /\ summary[i][2].L0_distribution = << <<"Cropland", 2>>, <<"Grassland", 1>> >>

\* C12 - L1 tally: for every source and every L1 name k, L1_distribution[k]
\* is the number of the source's entries whose L1 is k; the values sum to the
\* number of entries that carry an L1, which never exceeds total_classes.
C12_L1Tally ==
  Summarised =>
    \A i \in SourceIndexes :
      LET dist == summary[i][2].L1_distribution
          withL1 == Len(SelectSeq(ClassesOf(i), LAMBDA e : "L1" \in DOMAIN e[2]))
      IN /\ \A k \in KeySet(dist) \cup ValuesOf(i, "L1") : OdGet(dist, k, 0) = Carrying(i, "L1", k)
         /\ SumCounts(dist, Len(dist)) = withL1
         /\ withL1 <= summary[i][2].total_classes

\* A source with two Cereals entries and one entry without L1: the L1 tally
\* is {Cereals: 2} while total_classes is 3.
C12_Witness ==
  /\ Summarised
  /\ \E i \in SourceIndexes :
       /\ summary[i][2].total_classes = 3
       /\ summary[i][2].L1_distribution = << <<"Cereals", 2>> >>
       /\ \E j \in 1..3 : "L1" \notin DOMAIN ClassesOf(i)[j][2]

\* C13 as stated - Summary sparseness: no key of L0_distribution or
\* L1_distribution has value 0, and every key is carried by an entry.
C13_KeysCarried ==
  Summarised =>
    \A i \in SourceIndexes :
      /\ \A k \in KeySet(summary[i][2].L0_distribution) :
           /\ Lookup(summary[i][2].L0_distribution, k) # 0
           /\ Carrying(i, "L0", k) >= 1
      /\ \A k \in KeySet(summary[i][2].L1_distribution) :
           /\ Lookup(summary[i][2].L1_distribution, k) # 0
           /\ Carrying(i, "L1", k) >= 1

\* C13 - Summary sparseness: no key of L0_distribution or L1_distribution
\* has value 0; an L1 key is present only if an entry of the source carries
\* it, and an L0 key only if an entry carries it or, for the key "Unknown",
\* an entry of the source has no L0.
C13_SummarySparse ==
  Summarised =>
    \A i \in SourceIndexes :
      /\ \A k \in KeySet(summary[i][2].L0_distribution) :
           /\ Lookup(summary[i][2].L0_distribution, k) # 0
           /\ \/ Carrying(i, "L0", k) >= 1
              \/ k = "Unknown" /\ \E j \in 1..Len(ClassesOf(i)) : "L0" \notin DOMAIN ClassesOf(i)[j][2]
      /\ \A k \in KeySet(summary[i][2].L1_distribution) :
           /\ Lookup(summary[i][2].L1_distribution, k) # 0
           /\ Carrying(i, "L1", k) >= 1

\* A source with a Cropland entry that has an L1 and an entry without L0:
\* both tallies are non-empty and the L0 tally holds the key "Unknown".
C13_Witness ==
  /\ Summarised
  /\ \E i \in SourceIndexes :
       /\ summary[i][2].L0_distribution = << <<"Cropland", 1>>, <<"Unknown", 1>> >>
       /\ summary[i][2].L1_distribution = << <<"Legumes", 1>> >>

\* ---------------------------------------------------------------------
\* An entry that gives L2 without L1
\* ---------------------------------------------------------------------
\* The positions of the entries that give L2 and no L1.
L2WithoutL1 == {p \in Positions : "L2" \in DOMAIN EntryAt(p) /\ "L1" \notin DOMAIN EntryAt(p)}

CodeAt(p) == DATASETS[p[1]][2].classes[p[2]][1]

\* The index lists the entry at p in the group of its L2 under its source id.
ListedAt(p) ==
  \E n \in 1..Len(Recorded(EntryAt(p)["L2"], DATASETS[p[1]][1])) :
    Recorded(EntryAt(p)["L2"], DATASETS[p[1]][1])[n].code = CodeAt(p)

\* The entry at p got its duration from its L2 node, is counted under its L0
\* and adds nothing to the L1 tally of its source.
InheritsAndTallied(p) ==
  LET s == summary[p[1]][2] IN
  /\ ("duration" \notin DOMAIN ResolvedAt(p).cls /\ NodeDuration(EntryAt(p), "L2") # None)
       => ("duration" \in DOMAIN EntryAt(p)
             /\ EntryAt(p)["duration"] = NodeDuration(EntryAt(p), "L2"))
  /\ "L0" \in DOMAIN EntryAt(p) => OdGet(s.L0_distribution, EntryAt(p)["L0"], 0) >= 1
  /\ SumCounts(s.L1_distribution, Len(s.L1_distribution))
       = Len(SelectSeq(ClassesOf(p[1]), LAMBDA e : "L1" \in DOMAIN e[2]))

SameButDuration(e1, e2) ==
  /\ (DOMAIN e1) \ {"duration"} = (DOMAIN e2) \ {"duration"}
  /\ \A k \in (DOMAIN e1) \ {"duration"} : e2[k] = e1[k]

\* C15 - Frame of enrichment: no step of the run changes the hierarchy, the
\* sources, their order, ids or metadata, the codes a source registers or
\* their order, or any field of an entry other than "duration".
C15_FrameOfEnrichment ==
  [][/\ HIERARCHY' = HIERARCHY
     /\ Len(DATASETS') = Len(DATASETS)
     /\ \A i \in 1..Len(DATASETS) :
          /\ DATASETS'[i][1] = DATASETS[i][1]
          /\ DATASETS'[i][2].meta = DATASETS[i][2].meta
          /\ DOMAIN DATASETS'[i][2] = DOMAIN DATASETS[i][2]
          /\ Len(DATASETS'[i][2].classes) = Len(DATASETS[i][2].classes)
          /\ \A j \in 1..Len(DATASETS[i][2].classes) :
               /\ DATASETS'[i][2].classes[j][1] = DATASETS[i][2].classes[j][1]
               /\ SameButDuration(DATASETS[i][2].classes[j][2], DATASETS'[i][2].classes[j][2])
    ]_vars

\* The enrichment loop has written a duration onto an entry that gives L2
\* without L1 and had none of its own.
C15_Witness ==
  /\ pc = "enriched"
  /\ \E p \in L2WithoutL1 :
       /\ "duration" \notin DOMAIN ResolvedAt(p).cls
       /\ "duration" \in DOMAIN EntryAt(p)
       /\ SameButDuration(ResolvedAt(p).cls, EntryAt(p))


\* The data lines of a section of the report.
ReportLines(section) == SelectSeq(stdout, LAMBDA l : l.section = section)

\* The L2 names of the registries, in ascending order of name.
L2NameOrder == <<"Barley", "Clover", "Ryegrass", "Wheat">>

NameBefore(a, b) ==
  \E i, j \in 1..Len(L2NameOrder) : i < j /\ L2NameOrder[i] = a /\ L2NameOrder[j] = b

\* C16 - the report lists exactly the L2 names that occur in 2 or more
\* sources, each once, in descending order of the number of sources, and two
\* names with the same number of sources in ascending order of name.
C16_CorroboratedOrder ==
  pc = "done" =>
    LET lines == ReportLines("L2")
    IN /\ {lines[i].l2 : i \in 1..Len(lines)}
            = {g \in L2Names : Cardinality(SourcesWith(g)) >= 2}
       /\ \A a, b \in 1..Len(lines) :
            a < b => \/ lines[a].n > lines[b].n
                     \/ lines[a].n = lines[b].n /\ NameBefore(lines[a].l2, lines[b].l2)


\* The entries of source i with L0 "Cropland" and no L2, in registration order.
Unreconciled(i) ==
  SelectSeq(ClassesOf(i), LAMBDA e : /\ "L0" \in DOMAIN e[2]
                                     /\ e[2]["L0"] = "Cropland"
                                     /\ "L2" \notin DOMAIN e[2])

\* C17 - for every source the report has no line of the last section when
\* the source has no Cropland entry without L2, and otherwise one line that
\* shows the names of the first 10 such entries in registration order, with
\* the suffix " (+N more)", N the count less 10, exactly when there are more
\* than 10.
C17_UnreconciledList ==
  pc = "done" =>
    \A i \in SourceIndexes :
      LET u == Unreconciled(i)
          mine == SelectSeq(ReportLines("UNIQUE"), LAMBDA l : l.ds_id = DATASETS[i][1])
          shown == IF Len(u) > 10 THEN 10 ELSE Len(u)
      IN IF u = <<>> THEN mine = <<>>
         ELSE /\ Len(mine) = 1
              /\ mine[1].names = [n \in 1..shown |-> u[n][2]["name"]]
              /\ mine[1].extra = IF Len(u) > 10
                                   THEN " (+" \o ToString(Len(u) - 10) \o " more)"
                                   ELSE ""

\* A printed report of a source with 10 such entries and one of another kind
\* among them, next to a source with none.
C17_Witness ==
  /\ pc = "done"
  /\ Len(Unreconciled(1)) = 10
  /\ Len(ClassesOf(1)) = 11
  /\ Unreconciled(2) = <<>>
  /\ Len(ClassesOf(2)) = 1
  /\ \E n \in 1..Len(stdout) :
       /\ stdout[n].section = "UNIQUE"
       /\ stdout[n].ds_id = "crome"
       /\ Len(stdout[n].names) = 10

\* A printed report of a source with more than 10 such entries.
C17_Truncated ==
  /\ pc = "done"
  /\ Len(Unreconciled(1)) > 10
  /\ \E n \in 1..Len(stdout) :
       /\ stdout[n].section = "UNIQUE"
       /\ stdout[n].extra = " (+1 more)"


C19_CardinalityStored ==
  Indexed =>
    \A g \in KeySet(l2_cross_ref) :
      LET group == OdGet(l2_cross_ref, g, <<>>)
          ids == {DATASETS[i][1] : i \in SourceIndexes}
      IN \E n \in 1..Len(group) :
           /\ group[n][1] \notin ids
           /\ group[n][2] = Cardinality(KeySet(group) \cap ids)

\* C20 - L1 fallback: whenever infer_duration was given an entry without a
\* duration of its own whose L2 is absent, or names no node of the hierarchy,
\* or names a node without a duration, it returned the duration of the
\* entry's L1 node when that node exists and has one, and otherwise
\* "perennial" when the entry's L0 is Grassland, Forest or Shrubland.
C20_L1Fallback ==
  Resolved =>
    \A p \in Positions :
      LET cls == ResolvedAt(p).cls
      IN ("duration" \notin DOMAIN cls /\ NodeDuration(cls, "L2") = None)
           => /\ NodeDuration(cls, "L1") # None
                   => ResolvedAt(p).dur = NodeDuration(cls, "L1")
              /\ (NodeDuration(cls, "L1") = None /\ DictGet(cls, "L0", None) \in PerennialL0)
                   => ResolvedAt(p).dur = "perennial"

\* L2 "Ryegrass", which the hierarchy does not hold, with L1 Fodder Crops was
\* resolved to the duration of Fodder Crops.
C20_Witness ==
  /\ Resolved
  /\ \E p \in Positions :
       LET cls == ResolvedAt(p).cls
       IN /\ "duration" \notin DOMAIN cls
          /\ DictGet(cls, "L2", None) = "Ryegrass"
          /\ "L2" \in DOMAIN HIERARCHY
          /\ "Ryegrass" \notin DOMAIN HIERARCHY["L2"]
          /\ DictGet(cls, "L1", None) = "Fodder Crops"
          /\ NodeDuration(cls, "L1") # None
          /\ ResolvedAt(p).dur = NodeDuration(cls, "L1")


\* An entry names a node of the hierarchy at a level.
NamesNode(cls, level) ==
  /\ level \in DOMAIN cls
  /\ level \in DOMAIN HIERARCHY
  /\ cls[level] \in DOMAIN HIERARCHY[level]

\* The parent the hierarchy gives the node an entry names at a level, None
\* when there is no such node or it has no parent.
ParentAt(cls, level) ==
  IF NamesNode(cls, level) /\ "parent" \in DOMAIN HIERARCHY[level][cls[level]]
    THEN HIERARCHY[level][cls[level]]["parent"]
    ELSE None

\* C21 - parent chain of the shipped catalogue: every entry that has both
\* L1 and L2 has as L1 the parent of its L2 node, and every entry that has
\* L1 has as L0 the parent of its L1 node.
C21_ParentChain ==
  \A p \in Positions :
    /\ ("L1" \in DOMAIN EntryAt(p) /\ "L2" \in DOMAIN EntryAt(p))
         => ParentAt(EntryAt(p), "L2") = EntryAt(p)["L1"]
    /\ "L1" \in DOMAIN EntryAt(p)
         => ("L0" \in DOMAIN EntryAt(p) /\ ParentAt(EntryAt(p), "L1") = EntryAt(p)["L0"])

\* C22 - every L3 value of an entry of the shipped catalogue names a node of
\* an L3 level of the hierarchy.
C22_L3Resolves ==
  \A p \in Positions :
    "L3" \in DOMAIN EntryAt(p) => NamesNode(EntryAt(p), "L3")

\* C23 - every entry of the shipped catalogue has an L0 that names an L0
\* node, and every L1 and L2 it has names a node of that level.
C23_L0ToL2Resolve ==
  \A p \in Positions :
    /\ NamesNode(EntryAt(p), "L0")
    /\ "L1" \in DOMAIN EntryAt(p) => NamesNode(EntryAt(p), "L1")
    /\ "L2" \in DOMAIN EntryAt(p) => NamesNode(EntryAt(p), "L2")

\* The shipped entry "Maize" of source "jrc-eucropmap", with L0, L1 and L2,
\* has been through a whole run.
C23_Witness ==
  /\ pc = "done"
  /\ \E p \in Positions :
       /\ DATASETS[p[1]][1] = "jrc-eucropmap"
       /\ EntryAt(p)["name"] = "Maize"
       /\ {"L0", "L1", "L2"} \subseteq DOMAIN EntryAt(p)
       /\ EntryAt(p)["L2"] = "Maize"
       /\ NamesNode(EntryAt(p), "L2")

\* C24 - forest invariant of the shipped hierarchy: the parent of every L1
\* node is an L0 node, the parent of every L2 node is an L1 node, and no L0
\* node has a parent.
C24_Forest ==
  /\ {"L0", "L1", "L2"} \subseteq DOMAIN HIERARCHY
  /\ \A n \in DOMAIN HIERARCHY["L1"] :
       /\ "parent" \in DOMAIN HIERARCHY["L1"][n]
       /\ HIERARCHY["L1"][n]["parent"] \in DOMAIN HIERARCHY["L0"]
  /\ \A n \in DOMAIN HIERARCHY["L2"] :
       /\ "parent" \in DOMAIN HIERARCHY["L2"][n]
       /\ HIERARCHY["L2"][n]["parent"] \in DOMAIN HIERARCHY["L1"]
  /\ \A n \in DOMAIN HIERARCHY["L0"] : "parent" \notin DOMAIN HIERARCHY["L0"][n]

\* A run has ended under the hierarchy whose chain Clover - Legumes -
\* Cropland is three levels deep, on a source that has a Clover entry.
C24_Witness ==
  /\ pc = "done"
  /\ HIERARCHY["L2"]["Clover"]["parent"] = "Legumes"
  /\ HIERARCHY["L1"]["Legumes"]["parent"] = "Cropland"
  /\ "Cropland" \in DOMAIN HIERARCHY["L0"]
  /\ \E p \in Positions : DictGet(EntryAt(p), "L2", None) = "Clover"


\* The enrichment loop of the current run has visited every entry of every
\* source, once each, and each visit is complete: the entry is what the
\* visit was given, with the duration the visit resolved when it resolved one.
VisitedAll ==
  /\ pc # "main"
  /\ Len(resolved) = Len(DATASETS)
  /\ \A i \in SourceIndexes : Len(resolved[i]) = Len(ClassesOf(i))
  /\ \A p \in Positions :
       EntryAt(p) = IF Truthy(ResolvedAt(p).dur)
                      THEN DictSet(ResolvedAt(p).cls, "duration", ResolvedAt(p).dur)
                      ELSE ResolvedAt(p).cls

\* C25 - resolve before index: every step that builds the cross-reference
\* or the summary, or that writes the artifact, starts in a state where the
\* enrichment loop of the run has visited every entry.
C25_ResolveBeforeIndex ==
  [][(pc' \in {"indexed", "summarised", "written"} /\ pc' # pc) => VisitedAll]_vars

\* The artifact of a run is written, with a group in the index, after a
\* visit that resolved a duration.
C25_Witness ==
  /\ pc = "written"
  /\ VisitedAll
  /\ l2_cross_ref # <<>>
  /\ artifact # NoDocument
  /\ \E p \in Positions :
       /\ "duration" \notin DOMAIN ResolvedAt(p).cls
       /\ Truthy(ResolvedAt(p).dur)


\* The registry the enrichment loop was given: every entry as its visit, or
\* its pending visit, holds it.
GivenRegistry ==
  [i \in 1..Len(DATASETS) |->
     <<DATASETS[i][1],
       [DATASETS[i][2] EXCEPT !.classes =
          [j \in 1..Len(resolved[i]) |-> <<DATASETS[i][2].classes[j][1], resolved[i][j].cls>>]]>>]

\* C26 - order independence: when the entries have been visited one at a
\* time in any order, sources interleaved, the registry is the one the
\* sequential enrichment loop makes of the registry given, and the hierarchy
\* is untouched.
C26_OrderIndependent ==
  pc # "main" =>
    /\ DATASETS = EnrichDatasets(GivenRegistry)
    /\ resolved = Resolutions(GivenRegistry)
    /\ HIERARCHY = ShippedHierarchy

\* The loop has ended over two entries of the first source and one of the
\* second, and every visit resolved and wrote a duration.
C26_Witness ==
  /\ pc = "enriched"
  /\ Len(ClassesOf(1)) = 2
  /\ Len(ClassesOf(2)) = 1
  /\ \A p \in Positions :
       /\ "duration" \notin DOMAIN ResolvedAt(p).cls
       /\ Truthy(ResolvedAt(p).dur)
       /\ EntryAt(p)["duration"] = ResolvedAt(p).dur


\* The number of entries of source i that have no L0 field.
WithoutL0(i) == Len(SelectSeq(ClassesOf(i), LAMBDA e : "L0" \notin DOMAIN e[2]))

\* C27 - an entry without L0 is counted, not skipped: for every source the
\* L0 tally under "Unknown" is the number of its entries without L0 plus
\* the number whose L0 is "Unknown", and total_classes counts them all;
\* and the resolver gives such an entry no default: without a duration of
\* its own or from its L2 or L1 node it resolves to None and gets no
\* duration written.
C27_MissingL0IsUnknown ==
  /\ Summarised =>
       \A i \in SourceIndexes :
         /\ OdGet(summary[i][2].L0_distribution, "Unknown", 0)
              = WithoutL0(i) + Carrying(i, "L0", "Unknown")
         /\ summary[i][2].total_classes = Len(ClassesOf(i))
  /\ (Resolved /\ pc # "main") =>
       \A p \in Positions :
         ("L0" \notin DOMAIN ResolvedAt(p).cls
            /\ "duration" \notin DOMAIN ResolvedAt(p).cls
            /\ NodeDuration(ResolvedAt(p).cls, "L2") = None
            /\ NodeDuration(ResolvedAt(p).cls, "L1") = None)
           => /\ ResolvedAt(p).dur = None
              /\ "duration" \notin DOMAIN EntryAt(p)

\* A summarised source of two entries, one of them without L0: the tally
\* holds it under "Unknown" and it has no duration.
C27_Witness ==
  /\ Summarised
  /\ \E i \in SourceIndexes :
       /\ WithoutL0(i) = 1
       /\ summary[i][2].total_classes = 2
       /\ OdGet(summary[i][2].L0_distribution, "Unknown", 0) = 1
       /\ \E j \in 1..2 :
            /\ "L0" \notin DOMAIN ClassesOf(i)[j][2]
            /\ "duration" \notin DOMAIN ClassesOf(i)[j][2]
            /\ resolved[i][j].dur = None


\* The indexes of the sources registered under the id "meta".
MetaSources == {i \in SourceIndexes : DATASETS[i][1] = "meta"}

\* C28 - the source registered as "meta" is skipped by the cross-reference
\* loop only: its entries are enriched like any other, the summary holds its
\* record with its number of entries, and no group of the index holds the
\* key "meta", whatever L2 its entries have.
C28_MetaSkippedByIndexOnly ==
  /\ pc # "main" =>
       \A p \in Positions :
         p[1] \in MetaSources =>
           EntryAt(p) = IF Truthy(ResolvedAt(p).dur)
                          THEN DictSet(ResolvedAt(p).cls, "duration", ResolvedAt(p).dur)
                          ELSE ResolvedAt(p).cls
  /\ Indexed => \A g \in KeySet(l2_cross_ref) : "meta" \notin RecordedSources(g)
  /\ Summarised =>
       \A i \in MetaSources :
         /\ summary[i][1] = "meta"
         /\ summary[i][2].total_classes = Len(ClassesOf(i))

\* The source "meta" has an entry with L2 Wheat that got its duration and is
\* counted in the summary, and the index, built, does not hold it: Wheat is
\* either no group at all or a group of other sources.
C28_Witness ==
  /\ Summarised
  /\ \E i \in MetaSources : \E j \in 1..Len(ClassesOf(i)) :
       /\ DictGet(ClassesOf(i)[j][2], "L2", None) = "Wheat"
       /\ "duration" \notin DOMAIN resolved[i][j].cls
       /\ DictGet(ClassesOf(i)[j][2], "duration", None) = "annual"
       /\ summary[i][2].total_classes >= 1
       /\ "meta" \in SourcesWith("Wheat")
       /\ "meta" \notin RecordedSources("Wheat")


\* C29 - duration tallies of the report: for every source the annual,
\* perennial and mixed counts of its line are the numbers of its entries
\* whose duration after enrichment is exactly that value, so that "biennial"
\* and no duration count nowhere and the three sum to at most the number of
\* entries; a source whose three counts are 0 has no line.
C29_DurationTallies ==
  pc = "done" =>
    \A i \in SourceIndexes :
      LET mine == SelectSeq(ReportLines("DURATION"), LAMBDA l : l.ds_id = DATASETS[i][1])
          annual == Carrying(i, "duration", "annual")
          perennial == Carrying(i, "duration", "perennial")
          mixed == Carrying(i, "duration", "mixed")
      IN /\ annual + perennial + mixed <= Len(ClassesOf(i))
         /\ IF annual + perennial + mixed = 0 THEN mine = <<>>
            ELSE /\ Len(mine) = 1
                 /\ mine[1].annual = annual
                 /\ mine[1].perennial = perennial
                 /\ mine[1].mixed = mixed

\* The report of a source with a biennial entry and an annual one, whose
\* line counts 1 of 2, next to a source with no line.
C29_Witness ==
  /\ pc = "done"
  /\ \E i \in SourceIndexes :
       /\ Len(ClassesOf(i)) = 2
       /\ Carrying(i, "duration", "biennial") = 1
       /\ \E n \in 1..Len(stdout) :
            /\ stdout[n].section = "DURATION"
            /\ stdout[n].ds_id = DATASETS[i][1]
            /\ stdout[n].annual = 1
            /\ stdout[n].perennial = 0
            /\ stdout[n].mixed = 0
  /\ \E i \in SourceIndexes :
       /\ ClassesOf(i) # <<>>
       /\ \A n \in 1..Len(stdout) :
            stdout[n].section = "DURATION" => stdout[n].ds_id # DATASETS[i][1]


\* C30 - the summary holds one record per registered source, under its id
\* and in registration order, and nothing else; a source without entries has
\* a record with total_classes 0 and empty L0 and L1 tallies, and is in no
\* group of the cross-reference.
C30_OneRecordPerSource ==
  Summarised =>
    /\ Keys(summary) = [i \in 1..Len(DATASETS) |-> DATASETS[i][1]]
    /\ \A i \in SourceIndexes :
         ClassesOf(i) = <<>> =>
           /\ summary[i][2].total_classes = 0
           /\ summary[i][2].L0_distribution = <<>>
           /\ summary[i][2].L1_distribution = <<>>
           /\ \A g \in KeySet(l2_cross_ref) : DATASETS[i][1] \notin RecordedSources(g)

\* A summary of three records, the first for a source with an indexed entry
\* and the second for a source without entries.
C30_Witness ==
  /\ Summarised
  /\ Len(summary) = 3
  /\ ClassesOf(1) # <<>>
  /\ l2_cross_ref # <<>>
  /\ ClassesOf(2) = <<>>
  /\ summary[2][1] = "germany"
  /\ summary[2][2].total_classes = 0

====
